---- MODULE Spec2Model ----
(***************************************************************************)
(* A model of the quake task runner's evaluator (package evaluator).       *)
(*                                                                         *)
(* Strings are sequences of one-character strings, so that the string      *)
(* operations of the code (Contains, Split, Join, comparison with "")      *)
(* are computed rather than assumed.  <<>> is the empty string, and also   *)
(* the nil/empty slice.  An optional value (a *parser.Task that may be     *)
(* nil) is a sequence of length 0 or 1.                                    *)
(***************************************************************************)
EXTENDS Integers, Sequences, FiniteSets, TLC

VARIABLES
    quakefile,  \* Evaluator.quakefile: the merged, parsed Quakefile
    hostEnv,    \* the host process environment (os.LookupEnv)
    env,        \* Evaluator.env: name -> string
    taskArgs,   \* Evaluator.taskArgs: arguments of the current invocation
    stack,      \* the call stack of RunTaskWithArgs activations, top last
    ret,        \* the value the most recent RunTaskWithArgs call returned
    log,        \* history: what the current top-level call did, in order
    calls,      \* history: top-level calls made on this evaluator so far
    nextId,     \* history: the id the next activation gets
    probe,      \* the input of a pure function being applied
    result      \* the value the pure function returned

vars == <<quakefile, hostEnv, env, taskArgs, stack, ret, log, calls, nextId,
          probe, result>>

-----------------------------------------------------------------------------
(* Bounds of the model.                                                    *)

MaxCalls == 2
MaxDepth == 4
MaxArgs == 2

-----------------------------------------------------------------------------
(* Strings.                                                                *)

\* the backquote character, which a TLA+ string literal cannot hold
Backtick == "BQ"

\* strings.Contains(s, c) for a one-character c
Contains(s, c) == \E i \in 1..Len(s) : s[i] = c

\* strings.Index(s, c) for a one-character c that occurs in s
IndexOf(s, c) == CHOOSE i \in 1..Len(s) : s[i] = c /\ \A j \in 1..(i-1) : s[j] # c

\* strings.Split(s, c) for a one-character separator c
RECURSIVE Split(_, _)
Split(s, c) ==
    IF ~Contains(s, c) THEN <<s>>
    ELSE LET i == IndexOf(s, c)
         IN  <<SubSeq(s, 1, i-1)>> \o Split(SubSeq(s, i+1, Len(s)), c)

\* strings.Join(parts, "")
RECURSIVE Join(_)
Join(parts) == IF parts = <<>> THEN <<>> ELSE Head(parts) \o Join(Tail(parts))

\* strings.HasPrefix(s, p)
HasPrefix(s, p) == Len(s) >= Len(p) /\ SubSeq(s, 1, Len(p)) = p

\* characters a TLA+ string literal cannot hold: vertical tab, U+0085 (next
\* line) and U+00A0 (no-break space)
VerticalTab == "VT"
NextLine == "NEL"
NoBreakSpace == "NBSP"

\* the code points above Latin-1 with the White_Space property, each named by
\* its number: U+1680, U+2000 to U+200A, U+2028, U+2029, U+202F, U+205F, U+3000
WhiteSpaceAboveLatin1 ==
    { "U+1680", "U+2000", "U+2001", "U+2002", "U+2003", "U+2004", "U+2005",
      "U+2006", "U+2007", "U+2008", "U+2009", "U+200A", "U+2028", "U+2029",
      "U+202F", "U+205F", "U+3000" }

\* unicode.IsSpace(c), the white space strings.TrimSpace trims: \t \n \v \f
\* \r, space, U+0085 and U+00A0 in Latin-1, and the White_Space code points
\* above it
IsSpace(c) ==
    \/ c \in {" ", "\t", "\n", VerticalTab, "\f", "\r", NextLine, NoBreakSpace}
    \/ c \in WhiteSpaceAboveLatin1

RECURSIVE TrimLeft(_)
TrimLeft(s) == IF s # <<>> /\ IsSpace(Head(s)) THEN TrimLeft(Tail(s)) ELSE s

RECURSIVE TrimRight(_)
TrimRight(s) ==
    IF s # <<>> /\ IsSpace(s[Len(s)]) THEN TrimRight(SubSeq(s, 1, Len(s)-1)) ELSE s

\* strings.TrimSpace(s)
TrimSpace(s) == TrimRight(TrimLeft(s))

-----------------------------------------------------------------------------
(* The AST (package parser).                                               *)

StringElement(v) == [type |-> "StringElement", Value |-> v]
VariableElement(n) == [type |-> "VariableElement", Name |-> n]
BacktickElement(c) == [type |-> "BacktickElement", Command |-> c]
ExpressionElement(e) == [type |-> "ExpressionElement", Expression |-> e]

Identifier(n) == [type |-> "Identifier", Name |-> n]
StringLiteral(v) == [type |-> "StringLiteral", Value |-> v]
AccessId(o, p) == [type |-> "AccessId", Object |-> o, Property |-> p]
Or(l, r) == [type |-> "Or", Left |-> l, Right |-> r]

Command(elements, silent, continueOnError) ==
    [Elements |-> elements, Silent |-> silent, ContinueOnError |-> continueOnError]

\* parser.Task as the evaluator and main.go use it: the fields of the struct
\* declaration and the fields IsGoTask, GoDispatcher, GoSourceDir and
\* SourceFile that executeTask, executeGoTask and discoverGoTasks read and
\* set; a task parsed from a Quakefile has the zero value in these and in
\* Description
Task(name, arguments, dependencies, commands) ==
    [Name |-> name, Description |-> <<>>, Arguments |-> arguments,
     Dependencies |-> dependencies, Commands |-> commands, IsGoTask |-> FALSE,
     GoDispatcher |-> <<>>, GoSourceDir |-> <<>>, SourceFile |-> <<>>]

\* the description and source file discoverGoTasks records for a function:
\* the function's comment or "Go task from <file>", never empty
GoDescription == <<"G", "o">>
GoSourceFile == <<"q", ".", "g", "o">>

\* the Task value discoverGoTasks builds for a discovered Go function
GoTask(name, params, dispatcher, dir) ==
    [Name |-> name, Description |-> GoDescription, Arguments |-> params,
     Dependencies |-> <<>>, Commands |-> <<>>, IsGoTask |-> TRUE,
     GoDispatcher |-> dispatcher, GoSourceDir |-> dir, SourceFile |-> GoSourceFile]

Namespace(name, tasks, namespaces) ==
    [Name |-> name, Tasks |-> tasks, Variables |-> <<>>, Namespaces |-> namespaces]

QuakeFile(tasks, namespaces, variables) ==
    [Tasks |-> tasks, Namespaces |-> namespaces, Variables |-> variables,
     FileNamespace |-> <<>>]

-----------------------------------------------------------------------------
(* The evaluator's pure functions.                                         *)

\* a map assignment m[k] = v
SetEnv(m, k, v) == [n \in (DOMAIN m) \cup {k} |-> IF n = k THEN v ELSE m[n]]

\* a possibly-nil pointer
Nil == <<>>
Ptr(x) == <<x>>

\* the first index of seq whose element's Name is name, 0 if there is none
FirstNamed(seq, name) ==
    IF \E i \in 1..Len(seq) : seq[i].Name = name
    THEN CHOOSE i \in 1..Len(seq) :
             seq[i].Name = name /\ \A j \in 1..(i-1) : seq[j].Name # name
    ELSE 0

RECURSIVE findNamespacedTask(_, _)
RECURSIVE findNamespacedTaskFrom(_, _, _)

\* the loop "for _, ns := range namespaces" of findNamespacedTask, from index i
findNamespacedTaskFrom(parts, namespaces, i) ==
    IF i > Len(namespaces) THEN Nil
    ELSE LET ns == namespaces[i]
         IN  IF ns.Name # parts[1]
             THEN findNamespacedTaskFrom(parts, namespaces, i + 1)
             ELSE IF Len(parts) = 2
             THEN LET k == FirstNamed(ns.Tasks, parts[2])
                  IN  IF k # 0 THEN Ptr(ns.Tasks[k])
                      ELSE findNamespacedTaskFrom(parts, namespaces, i + 1)
             ELSE IF Len(parts) > 2
             THEN findNamespacedTask(Tail(parts), ns.Namespaces)
             ELSE findNamespacedTaskFrom(parts, namespaces, i + 1)

\* Evaluator.findNamespacedTask
findNamespacedTask(parts, namespaces) ==
    IF Len(parts) = 0 THEN Nil ELSE findNamespacedTaskFrom(parts, namespaces, 1)

\* a variant that walks the namespaces first for every name holding a colon
findTaskNamespacesFirst(qf, name) ==
    IF Contains(name, ":")
    THEN findNamespacedTask(Split(name, ":"), qf.Namespaces)
    ELSE IF FirstNamed(qf.Tasks, name) # 0
    THEN Ptr(qf.Tasks[FirstNamed(qf.Tasks, name)])
    ELSE Nil

\* Evaluator.findTask
findTask(qf, name) ==
    LET k == FirstNamed(qf.Tasks, name)
    IN  IF k # 0 THEN Ptr(qf.Tasks[k])
        ELSE IF Contains(name, ":")
        THEN findNamespacedTask(Split(name, ":"), qf.Namespaces)
        ELSE Nil

\* the lookup "e.env[name], then os.LookupEnv(name)": <<found, value>>
Lookup(e, h, name) ==
    IF name \in DOMAIN e THEN <<TRUE, e[name]>>
    ELSE IF name \in DOMAIN h THEN <<TRUE, h[name]>>
    ELSE <<FALSE, <<>>>>

\* fmt.Sprint of an Expression value: a struct prints as its fields in braces
RECURSIVE Sprint(_)
Sprint(expr) ==
    CASE expr.type = "Identifier" -> <<"{">> \o expr.Name \o <<"}">>
      [] expr.type = "StringLiteral" -> <<"{">> \o expr.Value \o <<"}">>
      [] expr.type = "AccessId" ->
             <<"{">> \o Sprint(expr.Object) \o <<" ">> \o expr.Property \o <<"}">>
      [] expr.type = "Or" ->
             <<"{">> \o Sprint(expr.Left) \o <<" ">> \o Sprint(expr.Right) \o <<"}">>

\* a variant whose Or tests the left string the wrong way round
RECURSIVE expressionToStringOrInverted(_, _, _)
expressionToStringOrInverted(e, h, expr) ==
    CASE expr.type = "Identifier" -> Lookup(e, h, expr.Name)[2]
      [] expr.type = "StringLiteral" -> expr.Value
      [] expr.type = "AccessId" ->
             IF Sprint(expr.Object) = <<"e", "n", "v">>
             THEN Lookup(e, h, expr.Property)[2]
             ELSE <<>>
      [] expr.type = "Or" ->
             LET left == expressionToStringOrInverted(e, h, expr.Left)
             IN  IF left = <<>> THEN left
                 ELSE expressionToStringOrInverted(e, h, expr.Right)
      [] OTHER -> <<>>

\* Evaluator.expressionToString, over environment e and host environment h
RECURSIVE expressionToString(_, _, _)
expressionToString(e, h, expr) ==
    CASE expr.type = "Identifier" -> Lookup(e, h, expr.Name)[2]
      [] expr.type = "StringLiteral" -> expr.Value
      [] expr.type = "AccessId" ->
             IF Sprint(expr.Object) = <<"e", "n", "v">>
             THEN Lookup(e, h, expr.Property)[2]
             ELSE <<>>
      [] expr.type = "Or" ->
             LET left == expressionToString(e, h, expr.Left)
             IN  IF left # <<>> THEN left
                 ELSE expressionToString(e, h, expr.Right)
      [] OTHER -> <<>>

\* a variant that treats a variable bound to the empty string as unbound
elementToStringEmptyUnset(e, h, el) ==
    CASE el.type = "StringElement" -> el.Value
      [] el.type = "VariableElement" ->
             IF el.Name \in DOMAIN e /\ e[el.Name] # <<>> THEN e[el.Name]
             ELSE IF el.Name \in DOMAIN h THEN h[el.Name]
             ELSE <<"$">> \o el.Name
      [] el.type = "BacktickElement" -> <<Backtick>> \o el.Command \o <<Backtick>>
      [] el.type = "ExpressionElement" -> expressionToString(e, h, el.Expression)
      [] OTHER -> <<>>

\* one element of a command, rendered as commandToString renders it
elementToString(e, h, el) ==
    CASE el.type = "StringElement" -> el.Value
      [] el.type = "VariableElement" ->
             IF Lookup(e, h, el.Name)[1] THEN Lookup(e, h, el.Name)[2]
             ELSE <<"$">> \o el.Name
      [] el.type = "BacktickElement" -> <<Backtick>> \o el.Command \o <<Backtick>>
      [] el.type = "ExpressionElement" -> expressionToString(e, h, el.Expression)
      [] OTHER -> <<>>

\* Evaluator.commandToString
commandToString(e, h, cmd) ==
    Join([i \in 1..Len(cmd.Elements) |-> elementToString(e, h, cmd.Elements[i])])

Echo == <<"e", "c", "h", "o">>

\* Evaluator.isEchoCommand
isEchoCommand(cmd) ==
    IF Len(cmd.Elements) = 0 THEN FALSE
    ELSE LET first == cmd.Elements[1]
         IN  IF first.type = "StringElement"
             THEN LET trimmed == TrimSpace(first.Value)
                  IN  trimmed = Echo \/ HasPrefix(trimmed, Echo \o <<" ">>)
             ELSE FALSE

\* the loop "for i, argName := range task.Arguments" of RunTaskWithArgs
RECURSIVE BindArgsFrom(_, _, _, _)
BindArgsFrom(e, arguments, args, i) ==
    IF i > Len(arguments) THEN e
    ELSE BindArgsFrom(SetEnv(e, arguments[i],
                             IF i <= Len(args) THEN args[i] ELSE <<>>),
                      arguments, args, i + 1)

\* a variant that binds only the arguments a value was passed for
BindArgsGiven(e, arguments, args) ==
    BindArgsFrom(e, SubSeq(arguments, 1, IF Len(args) < Len(arguments)
                                          THEN Len(args) ELSE Len(arguments)), args, 1)

BindArgs(e, arguments, args) == BindArgsFrom(e, arguments, args, 1)

\* a variant that hands the caller's arguments on to the dependency
DepArgsInherited(callerArgs) == callerArgs

\* RunTask(dep) is RunTaskWithArgs(dep, nil): the arguments a dependency gets
DepArgs(callerArgs) == <<>>

\* a variant that ends the task on every failed command
AbortsOnAnyFailure(cmd, ok) == ~ok

\* executeTask: a failed command ends the task unless it has ContinueOnError
Aborts(cmd, ok) == ~ok /\ ~cmd.ContinueOnError

\* a variant that takes a dependency for done when a task of that name has
\* already returned without error in the current call
DepsDoneIfRanBefore(frame) ==
    IF frame.di > Len(frame.task.Dependencies) THEN TRUE
    ELSE \E r \in 1..Len(log) :
             /\ log[r].ev = "return" /\ log[r].ok
             /\ log[r].name = frame.task.Dependencies[frame.di]

\* a variant that leaves the loop after the first dependency
DepsDoneAfterFirst(frame) ==
    frame.di > (IF frame.task.Dependencies = <<>> THEN 0 ELSE 1)

\* a variant that runs the task's own commands without waiting for the loop
DepsDoneAtOnce(frame) == frame.di >= 1

\* the loop "for _, dep := range task.Dependencies" is over: the task's own
\* commands run once every dependency has returned without error
DepsDone(frame) == frame.di > Len(frame.task.Dependencies)

\* a variant that never sees a dependency's error
DepNeverFailed(r) == FALSE

\* "if err := e.RunTask(dep); err != nil"
DepFailed(r) == r.k = "err"

\* strings.ReplaceAll(s, old, new), for a two-character old
RECURSIVE ReplaceAll(_, _, _)
ReplaceAll(s, old, new) ==
    IF Len(s) < 2 THEN s
    ELSE IF SubSeq(s, 1, 2) = old
    THEN new \o ReplaceAll(SubSeq(s, 3, Len(s)), old, new)
    ELSE <<Head(s)>> \o ReplaceAll(Tail(s), old, new)

Digits == {"0", "1", "2", "3", "4", "5", "6", "7", "8", "9"}
Letters ==
    {"a", "b", "c", "d", "e", "f", "g", "h", "i", "j", "k", "l", "m", "n", "o", "p",
     "q", "r", "s", "t", "u", "v", "w", "x", "y", "z", "A", "B", "C", "D", "E", "F",
     "G", "H", "I", "J", "K", "L", "M", "N", "O", "P", "Q", "R", "S", "T", "U", "V",
     "W", "X", "Y", "Z"}

\* os.Expand's isShellSpecialVar and isAlphaNum
isShellSpecialVar(c) == c \in {"*", "#", "$", "@", "!", "?", "-"} \cup Digits
isAlphaNum(c) == c = "_" \/ c \in Digits \/ c \in Letters

\* the length of the longest prefix of s made of alphanumerics
RECURSIVE AlphaNumPrefix(_)
AlphaNumPrefix(s) ==
    IF s # <<>> /\ isAlphaNum(Head(s)) THEN 1 + AlphaNumPrefix(Tail(s)) ELSE 0

\* os.Expand's getShellName(s), s not empty: <<name, width>>
getShellName(s) ==
    IF s[1] = "{"
    THEN IF Len(s) > 2 /\ isShellSpecialVar(s[2]) /\ s[3] = "}"
         THEN <<SubSeq(s, 2, 2), 3>>
         ELSE IF \E i \in 2..Len(s) : s[i] = "}"
         THEN LET i == CHOOSE i \in 2..Len(s) :
                           s[i] = "}" /\ \A j \in 2..(i-1) : s[j] # "}"
              IN  IF i = 2 THEN <<<<>>, 2>> ELSE <<SubSeq(s, 2, i-1), i>>
         ELSE <<<<>>, 1>>
    ELSE IF isShellSpecialVar(s[1]) THEN <<SubSeq(s, 1, 1), 1>>
    ELSE <<SubSeq(s, 1, AlphaNumPrefix(s)), AlphaNumPrefix(s)>>

\* Evaluator.expandShellVariables: os.Expand(s, mapping), where mapping(key) is
\* e.env[key] if set and os.Getenv(key) otherwise
RECURSIVE expandShellVariables(_, _, _)
expandShellVariables(e, h, s) ==
    IF s = <<>> THEN <<>>
    ELSE IF s[1] = "$" /\ Len(s) > 1
    THEN LET nw == getShellName(Tail(s))
             name == nw[1]
             w == nw[2]
         IN  (IF name = <<>> /\ w > 0 THEN <<>>
              ELSE IF name = <<>> THEN <<"$">>
              ELSE Lookup(e, h, name)[2])
             \o expandShellVariables(e, h, SubSeq(s, w + 2, Len(s)))
    ELSE <<Head(s)>> \o expandShellVariables(e, h, Tail(s))

\* strings.Trim(s, "`")
RECURSIVE TrimBackticks(_)
TrimBackticks(s) ==
    IF s # <<>> /\ Head(s) = Backtick THEN TrimBackticks(Tail(s))
    ELSE IF s # <<>> /\ s[Len(s)] = Backtick THEN TrimBackticks(SubSeq(s, 1, Len(s)-1))
    ELSE s

\* strings.TrimPrefix(s, p)
TrimPrefix(s, p) == IF HasPrefix(s, p) THEN SubSeq(s, Len(p) + 1, Len(s)) ELSE s

\* strings.TrimLeft(s, cutset)
RECURSIVE TrimLeftCutset(_, _)
TrimLeftCutset(s, cutset) ==
    IF s # <<>> /\ Head(s) \in cutset THEN TrimLeftCutset(Tail(s), cutset) ELSE s

\* the loop of stripQuotesForEcho: the characters of s without the quotes that
\* open or close a section
RECURSIVE StripQuotes(_, _, _)
StripQuotes(s, inDoubleQuote, inSingleQuote) ==
    IF s = <<>> THEN <<>>
    ELSE IF Head(s) = "\"" /\ ~inSingleQuote
    THEN StripQuotes(Tail(s), ~inDoubleQuote, inSingleQuote)
    ELSE IF Head(s) = "'" /\ ~inDoubleQuote
    THEN StripQuotes(Tail(s), inDoubleQuote, ~inSingleQuote)
    ELSE <<Head(s)>> \o StripQuotes(Tail(s), inDoubleQuote, inSingleQuote)

\* Evaluator.stripQuotesForEcho
stripQuotesForEcho(e, h, s) ==
    IF /\ Len(s) >= 2 /\ s[1] = "\"" /\ s[Len(s)] = "\""
       /\ ~Contains(SubSeq(s, 2, Len(s) - 1), "\"")
    THEN expandShellVariables(e, h, SubSeq(s, 2, Len(s) - 1))
    ELSE IF /\ Len(s) >= 2 /\ s[1] = "'" /\ s[Len(s)] = "'"
            /\ ~Contains(SubSeq(s, 2, Len(s) - 1), "'")
    THEN SubSeq(s, 2, Len(s) - 1)
    ELSE expandShellVariables(e, h, StripQuotes(s, FALSE, FALSE))

\* what a command made the evaluator do: the line it printed itself (if any)
\* and the text it handed to sh -c (if any)
Printed(text) == [printed |-> <<text>>, shell |-> <<>>]
Shelled(echoed, cmdStr) == [printed |-> echoed, shell |-> <<cmdStr>>]

\* Evaluator.executeNativeEcho for a command with elements, from element i on
\* (the first element is 1), output being the text built so far
RECURSIVE executeNativeEchoFrom(_, _, _, _, _)
executeNativeEchoFrom(e, h, cmd, i, output) ==
    IF i > Len(cmd.Elements) THEN Printed(output)
    ELSE LET el == cmd.Elements[i]
         IN  CASE el.type = "StringElement" ->
                    LET trimmed == TrimSpace(el.Value)
                        val == IF i = 1 /\ HasPrefix(trimmed, Echo \o <<" ">>)
                               THEN TrimLeftCutset(TrimPrefix(el.Value, Echo \o <<" ">>),
                                                   {" ", "\t"})
                               ELSE el.Value
                    IN  IF i = 1 /\ trimmed = Echo
                        THEN executeNativeEchoFrom(e, h, cmd, i+1, output)
                        ELSE executeNativeEchoFrom(e, h, cmd, i+1,
                                 output \o stripQuotesForEcho(e, h, val))
               [] el.type = "VariableElement" ->
                    executeNativeEchoFrom(e, h, cmd, i+1,
                                          output \o Lookup(e, h, el.Name)[2])
               [] el.type = "BacktickElement" ->
                    Printed(TrimSpace(TrimPrefix(commandToString(e, h, cmd), Echo)))
               [] el.type = "ExpressionElement" ->
                    executeNativeEchoFrom(e, h, cmd, i+1,
                        output \o expressionToString(e, h, el.Expression))

\* Evaluator.executeNativeEcho
executeNativeEcho(e, h, cmd) ==
    IF Len(cmd.Elements) = 0 THEN Printed(<<>>)
    ELSE executeNativeEchoFrom(e, h, cmd, 1, <<>>)

\* Evaluator.executeCommandWithPosition up to the start of the shell
executeCommandWithPosition(e, h, cmd) ==
    IF cmd.Silent /\ isEchoCommand(cmd)
    THEN executeNativeEcho(e, h, cmd)
    ELSE LET cmdStr == commandToString(e, h, cmd)
         IN  Shelled(IF cmd.Silent THEN <<>> ELSE <<cmdStr>>, cmdStr)

\* a Go string held in the field Variable.Value, which is of type any
GoString(s) == [type |-> "string", Value |-> s]

\* a variable assignment of each kind the parser produces
PlainVariable(name, value) ==
    [Name |-> name, Value |-> GoString(value), IsExpression |-> FALSE,
     CommandSubstitution |-> FALSE, IsMultiline |-> FALSE]
ExpressionVariable(name, expr) ==
    [Name |-> name, Value |-> expr, IsExpression |-> TRUE,
     CommandSubstitution |-> FALSE, IsMultiline |-> FALSE]
SubstitutionVariable(name, value) ==
    [Name |-> name, Value |-> GoString(value), IsExpression |-> FALSE,
     CommandSubstitution |-> TRUE, IsMultiline |-> FALSE]

\* Evaluator.evaluateVariable.  out is what running a command substitution
\* through "sh -c" gives: <<exit status is zero, standard output>>
evaluateVariable(e, h, variable, out) ==
    IF variable.CommandSubstitution
    THEN IF variable.Value.type = "string" /\ out[1] THEN TrimSpace(out[2]) ELSE <<>>
    ELSE IF variable.IsExpression
    THEN IF variable.Value.type \in {"Identifier", "StringLiteral", "AccessId", "Or"}
         THEN expressionToString(e, h, variable.Value)
         ELSE <<>>
    ELSE IF variable.Value.type # "string" THEN <<>>
    ELSE LET str == TrimSpace(variable.Value.Value)
             unquoted ==
                 IF Len(str) >= 2 /\ str[1] = "\"" /\ str[Len(str)] = "\""
                 THEN ReplaceAll(ReplaceAll(ReplaceAll(ReplaceAll(
                          SubSeq(str, 2, Len(str) - 1),
                          <<"\\", "\"">>, <<"\"">>),
                          <<"\\", "\\">>, <<"\\">>),
                          <<"\\", "n">>, <<"\n">>),
                          <<"\\", "t">>, <<"\t">>)
                 ELSE str
         IN  expandShellVariables(e, h, unquoted)

\* a variant that evaluates the variables from the last one to the first
RECURSIVE loadGlobalVariablesBackwards(_, _, _, _, _)
loadGlobalVariablesBackwards(e, h, variables, outs, i) ==
    IF i > Len(variables) THEN e
    ELSE LET later == loadGlobalVariablesBackwards(e, h, variables, outs, i + 1)
         IN  SetEnv(later, variables[i].Name,
                    evaluateVariable(later, h, variables[i], outs[i]))

\* Evaluator.loadGlobalVariables, from the i-th variable on; outs[i] is the
\* shell's result for the i-th variable if that is a command substitution
RECURSIVE loadGlobalVariablesFrom(_, _, _, _, _)
loadGlobalVariablesFrom(e, h, variables, outs, i) ==
    IF i > Len(variables) THEN e
    ELSE loadGlobalVariablesFrom(
             SetEnv(e, variables[i].Name, evaluateVariable(e, h, variables[i], outs[i])),
             h, variables, outs, i + 1)

\* New: an empty environment, then loadGlobalVariables
New(qf, h, outs) == loadGlobalVariablesFrom(<<>>, h, qf.Variables, outs, 1)

-----------------------------------------------------------------------------
(* Return values of RunTaskWithArgs.                                       *)

None == [k |-> "none", kind |-> "", task |-> <<>>, wraps |-> <<>>]
Ok == [k |-> "ok", kind |-> "", task |-> <<>>, wraps |-> <<>>]

\* no value at all: the call is blocked in shellCmd.Run() or cmd.Run(), which
\* wait without a timeout for a child process that does not exit
Blocked == [k |-> "blocked", kind |-> "", task |-> <<>>, wraps |-> <<>>]

\* fmt.Errorf("task '%s' not found", taskName)
TaskNotFound(name) == [k |-> "err", kind |-> "TaskNotFound", task |-> name, wraps |-> <<>>]

\* fmt.Errorf("command failed: %w", err)
CommandFailed(name) == [k |-> "err", kind |-> "CommandFailed", task |-> name, wraps |-> <<>>]

\* the errors of executeGoTask
GoTaskFailed(name) == [k |-> "err", kind |-> "GoTaskFailed", task |-> name, wraps |-> <<>>]
GoTaskNoDispatcher(name) == [k |-> "err", kind |-> "GoTaskNoDispatcher", task |-> name, wraps |-> <<>>]
GoTaskNoSourceDir(name) == [k |-> "err", kind |-> "GoTaskNoSourceDir", task |-> name, wraps |-> <<>>]

\* a variant that passes a dependency's error on as it is
WrapNothing(dep, err) == err

\* fmt.Errorf("dependency '%s' failed: %w", dep, err)
Wrap(dep, err) == [err EXCEPT !.wraps = <<dep>> \o @]

-----------------------------------------------------------------------------
(* The Quakefiles and inputs the model runs.                               *)

TaskA == <<"a">>
TaskB == <<"b">>
TaskG == <<"g">>
Default == <<"d", "e", "f", "a", "u", "l", "t">>
Missing == <<"z">>
NsU == <<"n", ":", "u">>
ArgX == <<"x">>
ArgY == <<"y">>

\* a command line "<word> $<var>", echoed and run by the shell
Sh(word, var, continueOnError) ==
    Command(<<StringElement(<<word, " ">>), VariableElement(var)>>, FALSE, continueOnError)

\* the command line "@echo hi"
SilentEcho == Command(<<StringElement(Echo \o <<" ", "h", "i">>)>>, TRUE, FALSE)

\*   x = "g$y"
GlobalVariables ==
    {<<>>, <<PlainVariable(ArgX, <<"\"", "g", "$", "y", "\"">>)>>}

\* what `sh -c c` gives: it prints " o" and a newline, or it fails
ShellOutputs == {<<TRUE, <<" ", "o", "\n">>>>, <<FALSE, <<>>>>}

\* the shell's result for each command substitution among the variables: any
\* output or a failure for each; no shell runs for the other variables
ShellResults(qf) ==
    { outs \in [1..Len(qf.Variables) -> ShellOutputs] :
          \A i \in 1..Len(qf.Variables) :
              ~qf.Variables[i].CommandSubstitution => outs[i] = <<FALSE, <<>>>> }

DepsOfA == {<<TaskB, Default>>, <<TaskB, Missing, Default>>, <<NsU, TaskB>>}
DepsOfB == {<<>>, <<Default>>, <<TaskA>>, <<TaskB>>}

\*   task a(x, y) => da { -p $x ; q $y ; r $x }
\*   task b(x) => db { p $x ; -q $x }
\*   task default { @echo hi ; p $y }
\*   namespace n { task u(y) { q $y } }
\*   and the Go task g(x)
Quakefiles ==
    { QuakeFile(
          << Task(TaskA, <<ArgX, ArgY>>, da,
                  <<Sh("p", ArgX, TRUE), Sh("q", ArgY, FALSE), Sh("r", ArgX, FALSE)>>),
             Task(TaskB, <<ArgX>>, db,
                  <<Sh("p", ArgX, FALSE), Sh("q", ArgX, TRUE)>>),
             Task(Default, <<>>, <<>>, <<SilentEcho, Sh("p", ArgY, FALSE)>>),
             GoTask(TaskG, <<ArgX>>, <<"d">>, <<"q">>) >>,
          << Namespace(<<"n">>, <<Task(<<"u">>, <<ArgY>>, <<>>, <<Sh("q", ArgY, FALSE)>>)>>, <<>>) >>,
          gv)
      : da \in DepsOfA, db \in DepsOfB,
        gv \in GlobalVariables }

HostEnvs == {<<>>, [n \in {ArgY} |-> <<"h">>]}

\* the values a caller passes, in order
ArgPool == <<<<"v">>, <<"w">>, <<"u">>, <<"s">>>>

CallNames == {TaskA, TaskB, TaskG, NsU, Missing, <<>>}
CallArgs == {SubSeq(ArgPool, 1, m) : m \in 0..MaxArgs}

-----------------------------------------------------------------------------
(* The evaluator as a state machine.                                       *)

Top == stack[Len(stack)]
Running == stack # <<>> /\ ret = None

Event(ev, id, parent, name, args, n, text, ok, e, ta) ==
    [ev |-> ev, id |-> id, parent |-> parent, name |-> name, args |-> args,
     n |-> n, text |-> text, ok |-> ok, env |-> e, taskArgs |-> ta]

\* RunTaskWithArgs up to the dependency loop: the default name, the lookup,
\* the saved and replaced taskArgs and the argument bindings
Enter(taskName0, args, parent, id, base) ==
    LET taskName == IF taskName0 = <<>> THEN Default ELSE taskName0
        task == findTask(quakefile, taskName)
        enter == Event("enter", id, parent, taskName, args, 0, <<>>, TRUE, env, taskArgs)
    IN  /\ nextId' = id + 1
        /\ IF task = Nil
           THEN /\ ret' = TaskNotFound(taskName)
                /\ log' = base \o <<enter, Event("return", id, parent, taskName, args,
                                                 0, <<>>, FALSE, env, taskArgs)>>
                /\ UNCHANGED <<env, taskArgs, stack>>
           ELSE /\ ret' = None
                /\ taskArgs' = args
                /\ env' = BindArgs(env, task[1].Arguments, args)
                /\ stack' = Append(stack, [id |-> id, parent |-> parent,
                                           name |-> taskName, task |-> task[1],
                                           args |-> args, oldArgs |-> taskArgs,
                                           di |-> 1, ci |-> 1])
                /\ log' = Append(base, enter)

\* a variant that returns without restoring the saved taskArgs
ReturnKeepingArgs(r, base) ==
    /\ stack' = SubSeq(stack, 1, Len(stack) - 1)
    /\ taskArgs' = taskArgs
    /\ ret' = r
    /\ log' = Append(base, Event("return", Top.id, Top.parent, Top.name, Top.args,
                                 0, <<>>, r.k = "ok", env, taskArgs))
    /\ UNCHANGED <<env, nextId>>

\* a return of the top activation with value r: the deferred restore of taskArgs
Return(r, base) ==
    /\ stack' = SubSeq(stack, 1, Len(stack) - 1)
    /\ taskArgs' = Top.oldArgs
    /\ ret' = r
    /\ log' = Append(base, Event("return", Top.id, Top.parent, Top.name, Top.args,
                                 0, <<>>, r.k = "ok", env, Top.oldArgs))
    /\ UNCHANGED <<env, nextId>>

\* a caller (realMain's runTask) calls RunTaskWithArgs on the evaluator
Call ==
    /\ stack = <<>>
    /\ calls < MaxCalls
    /\ calls' = calls + 1
    /\ \E name \in CallNames, args \in CallArgs : Enter(name, args, 0, 1, <<>>)
    /\ UNCHANGED <<quakefile, hostEnv, probe, result>>

\* the dependency loop calls RunTask(dep)
RunDep ==
    /\ Running
    /\ ~DepsDone(Top)
    /\ Len(stack) < MaxDepth
    /\ Enter(Top.task.Dependencies[Top.di], DepArgs(Top.args), Top.id, nextId, log)
    /\ UNCHANGED <<quakefile, hostEnv, calls, probe, result>>

\* RunTask(dep) returned to the dependency loop
DepReturned ==
    /\ stack # <<>>
    /\ ret # None
    /\ ret # Blocked
    /\ IF DepFailed(ret)
       THEN Return(Wrap(Top.task.Dependencies[Top.di], ret), log)
       ELSE /\ stack' = [stack EXCEPT ![Len(stack)].di = @ + 1]
            /\ ret' = None
            /\ UNCHANGED <<env, taskArgs, log, nextId>>
    /\ UNCHANGED <<quakefile, hostEnv, calls, probe, result>>

\* executeTask runs the next command: executeCommandWithPosition, then the
\* test of ContinueOnError
ExecCommand ==
    /\ Running
    /\ DepsDone(Top)
    /\ ~Top.task.IsGoTask
    /\ Top.ci <= Len(Top.task.Commands)
    /\ LET cmd == Top.task.Commands[Top.ci]
           native == cmd.Silent /\ isEchoCommand(cmd)
       IN  \E exits \in (IF native THEN {TRUE} ELSE BOOLEAN) :
             IF ~exits
             THEN /\ ret' = Blocked
                  /\ log' = Append(log, Event("blocked", Top.id, Top.parent, Top.name,
                                              Top.args, Top.ci,
                                              commandToString(env, hostEnv, cmd),
                                              FALSE, env, taskArgs))
                  /\ UNCHANGED <<env, taskArgs, stack, nextId>>
             ELSE
               \E ok \in (IF native THEN {TRUE} ELSE BOOLEAN) :
               LET ev == Event(IF native THEN "echo" ELSE "cmd", Top.id, Top.parent,
                               Top.name, Top.args, Top.ci,
                               IF native THEN <<>> ELSE commandToString(env, hostEnv, cmd),
                               ok, env, taskArgs)
               IN  IF Aborts(cmd, ok)
                   THEN Return(CommandFailed(Top.name), Append(log, ev))
                   ELSE /\ stack' = [stack EXCEPT ![Len(stack)].ci = @ + 1]
                        /\ log' = Append(log, ev)
                        /\ UNCHANGED <<env, taskArgs, ret, nextId>>
    /\ UNCHANGED <<quakefile, hostEnv, calls, probe, result>>

\* executeTask of a Go task: executeGoTask
ExecGoTask ==
    /\ Running
    /\ DepsDone(Top)
    /\ Top.task.IsGoTask
    /\ IF Top.task.GoDispatcher = <<>>
       THEN Return(GoTaskNoDispatcher(Top.name), log)
       ELSE IF Top.task.GoSourceDir = <<>>
       THEN Return(GoTaskNoSourceDir(Top.name), log)
       ELSE \E exits \in BOOLEAN :
             IF ~exits
             THEN /\ ret' = Blocked
                  /\ log' = Append(log, Event("blocked", Top.id, Top.parent, Top.name,
                                              Top.args, 0, <<Top.task.Name>> \o taskArgs,
                                              FALSE, env, taskArgs))
                  /\ UNCHANGED <<env, taskArgs, stack, nextId>>
             ELSE
               \E ok \in BOOLEAN :
               Return(IF ok THEN Ok ELSE GoTaskFailed(Top.name),
                      Append(log, Event("go", Top.id, Top.parent, Top.name, Top.args, 0,
                                        <<Top.task.Name>> \o taskArgs, ok, env, taskArgs)))
    /\ UNCHANGED <<quakefile, hostEnv, calls, probe, result>>

\* a variant in which executeTask does not return after the last command
TaskDoneNever ==
    /\ Running
    /\ DepsDone(Top)
    /\ ~Top.task.IsGoTask
    /\ Top.ci > Len(Top.task.Commands)
    /\ UNCHANGED vars

\* executeTask has run every command: return nil
TaskDone ==
    /\ Running
    /\ DepsDone(Top)
    /\ ~Top.task.IsGoTask
    /\ Top.ci > Len(Top.task.Commands)
    /\ Return(Ok, log)
    /\ UNCHANGED <<quakefile, hostEnv, calls, probe, result>>

Init ==
    /\ quakefile \in Quakefiles
    /\ hostEnv \in HostEnvs
    /\ \E outs \in ShellResults(quakefile) : env = New(quakefile, hostEnv, outs)
    /\ taskArgs = <<>>
    /\ stack = <<>>
    /\ ret = None
    /\ log = <<>>
    /\ calls = 0
    /\ nextId = 1
    /\ probe = <<>>
    /\ result = <<>>

Next == Call \/ RunDep \/ DepReturned \/ ExecCommand \/ ExecGoTask \/ TaskDone

Spec == Init /\ [][Next]_vars

-----------------------------------------------------------------------------
(* Task lookup on its own: findTask applied to a name.                     *)

MaxSiblings == 2

\* a task with no arguments and no dependencies, told apart by its command
Tagged(name, tag) ==
    Task(name, <<>>, <<>>, <<Command(<<StringElement(<<tag>>)>>, FALSE, FALSE)>>)

\* the sequences over set S of length at most n
SeqsUpTo(S, n) == UNION {[1..k -> S] : k \in 0..n}

SegA == <<"a">>
SegB == <<"b">>
NameT == <<"t">>

\* namespace b { } and namespace b { task t }, nested in a
InnerNamespaces ==
    {Namespace(SegB, ts, <<>>) : ts \in {<<>>, <<Tagged(NameT, "inner")>>}}

\* namespace a { [task t] b-namespaces }
OuterNamespaces ==
    {Namespace(SegA, ts, inner) :
         ts \in {<<>>, <<Tagged(NameT, "outer")>>},
         inner \in SeqsUpTo(InnerNamespaces, MaxSiblings)}

\* the flat task lists: none, a duplicated name, compound names
FlatLists ==
    { <<>>,
      <<Tagged(NameT, "first"), Tagged(NameT, "second")>>,
      <<Tagged(SegA \o <<":">> \o NameT, "flat")>>,
      <<Tagged(SegA \o <<":">> \o SegB \o <<":">> \o NameT, "flat")>> }

FindQuakefiles ==
    {QuakeFile(flat, nss, <<>>) :
         flat \in FlatLists, nss \in SeqsUpTo(OuterNamespaces, MaxSiblings)}

FindNames ==
    { NameT, SegA, <<>>,
      SegA \o <<":">> \o NameT,
      SegB \o <<":">> \o NameT,
      SegA \o <<":">> \o SegB,
      SegA \o <<":">>,
      SegA \o <<":">> \o SegB \o <<":">> \o NameT,
      SegA \o <<":">> \o SegA \o <<":">> \o NameT,
      SegA \o <<":">> \o SegB \o <<":">> \o SegB \o <<":">> \o NameT }

InitFind ==
    /\ quakefile \in FindQuakefiles
    /\ probe \in FindNames
    /\ result = <<>>
    /\ hostEnv = <<>>
    /\ env = <<>>
    /\ taskArgs = <<>>
    /\ stack = <<>>
    /\ ret = None
    /\ log = <<>>
    /\ calls = 0
    /\ nextId = 1

\* e.findTask(probe)
FindTask ==
    /\ result = <<>>
    /\ result' = <<findTask(quakefile, probe)>>
    /\ UNCHANGED <<quakefile, hostEnv, env, taskArgs, stack, ret, log, calls, nextId, probe>>

SpecFind == InitFind /\ [][FindTask]_vars

-----------------------------------------------------------------------------
(* Expressions on their own: expressionToString applied to an expression.  *)

VarX == <<"x">>
VarY == <<"y">>
VarM == <<"m">>

\* x is unset, empty or set in the evaluator; x and y are unset or set in the host
ExprEnvs == {<<>>, [n \in {VarX} |-> <<>>], [n \in {VarX} |-> <<"v">>]}
ExprHosts == {<<>>, [n \in {VarY} |-> <<"h">>], [n \in {VarX, VarY} |-> <<"h">>]}

Atoms ==
    { Identifier(VarX), Identifier(VarY), Identifier(VarM),
      StringLiteral(<<>>), StringLiteral(<<"d">>),
      AccessId(Identifier(<<"e", "n", "v">>), VarX) }

Ors == {Or(l, r) : l \in Atoms, r \in Atoms}

Exprs ==
    Atoms \cup Ors
        \cup {Or(l, r) : l \in Ors, r \in Atoms}
        \cup {Or(l, r) : l \in Atoms, r \in Ors}

InitExpr ==
    /\ env \in ExprEnvs
    /\ hostEnv \in ExprHosts
    /\ probe \in Exprs
    /\ result = <<>>
    /\ quakefile = QuakeFile(<<>>, <<>>, <<>>)
    /\ taskArgs = <<>>
    /\ stack = <<>>
    /\ ret = None
    /\ log = <<>>
    /\ calls = 0
    /\ nextId = 1

\* e.expressionToString(probe)
EvalExpression ==
    /\ result = <<>>
    /\ result' = <<expressionToString(env, hostEnv, probe)>>
    /\ UNCHANGED <<quakefile, hostEnv, env, taskArgs, stack, ret, log, calls, nextId, probe>>

SpecExpr == InitExpr /\ [][EvalExpression]_vars

-----------------------------------------------------------------------------
(* Reading the history.                                                    *)

\* the events with which an activation runs its own task
OwnEvents == {"cmd", "echo", "go"}

\* the task a resolved name stands for
TaskNamed(name) == findTask(quakefile, name)[1]
Resolves(name) == findTask(quakefile, name) # Nil

\* the positions before p, in order, at which activation f called a dependency
KidsBefore(f, p) ==
    LET IsKid(q) == log[q].ev = "enter" /\ log[q].parent = f
    IN  SelectSeq([q \in 1..(p-1) |-> q], IsKid)

\* the activation entered at position q ran its whole task before position r:
\* each command once and in order, or the one dispatcher call of a Go task
RanWhole(q, r) ==
    LET IsOwn(k) == q < k /\ k < r /\ log[k].id = log[q].id /\ log[k].ev \in OwnEvents
        own == SelectSeq([k \in 1..Len(log) |-> k], IsOwn)
        task == TaskNamed(log[q].name)
    IN  IF task.IsGoTask
        THEN Len(own) = 1 /\ log[own[1]].ev = "go"
        ELSE /\ Len(own) = Len(task.Commands)
             /\ \A i \in 1..Len(own) : log[own[i]].n = i /\ log[own[i]].ev # "go"

\* at position p every dependency of p's task has been called, in the declared
\* order, and has returned without error, one after the other
DepsRanFirst(p) ==
    LET deps == TaskNamed(log[p].name).Dependencies
        kids == KidsBefore(log[p].id, p)
    IN  /\ Len(kids) = Len(deps)
        /\ \A i \in 1..Len(kids) :
               /\ log[kids[i]].name = deps[i]
               /\ \E r \in (kids[i] + 1)..(p - 1) :
                      /\ log[r].ev = "return"
                      /\ log[r].id = log[kids[i]].id
                      /\ log[r].ok
                      /\ RanWhole(kids[i], r)
                      /\ i < Len(kids) => r < kids[i + 1]

-----------------------------------------------------------------------------
(* The claims.                                                             *)

\* C1: whenever an activation of a task T executes one of T's own commands (or
\* returns without error), every dependency of T has already been run, in the
\* declared order, each to completion with all of its own dependencies and
\* commands, before the next one and before that command.
C1_DependenciesFirst ==
    \A p \in 1..Len(log) :
        (log[p].ev \in OwnEvents \/ (log[p].ev = "return" /\ log[p].ok))
            => DepsRanFirst(p)

\* C1 witness: the first command of a runs after its two dependencies, one of
\* which ran a dependency of its own
C1_Witness ==
    \E p \in 1..Len(log) :
        /\ log[p].ev = "cmd" /\ log[p].name = TaskA /\ log[p].n = 1
        /\ Len(TaskNamed(TaskA).Dependencies) = 2
        /\ \E q \in 1..(p-1), g \in 1..(p-1) :
               /\ log[q].ev = "enter" /\ log[q].parent = log[p].id
               /\ log[g].ev = "enter" /\ log[g].parent = log[q].id

\* the command executed at position p failed and has no ContinueOnError
FatalAt(p) ==
    /\ log[p].ev = "cmd"
    /\ ~log[p].ok
    /\ ~TaskNamed(log[p].name).Commands[log[p].n].ContinueOnError

\* the command executed at position p failed and has ContinueOnError
ForgivenAt(p) ==
    /\ log[p].ev = "cmd"
    /\ ~log[p].ok
    /\ TaskNamed(log[p].name).Commands[log[p].n].ContinueOnError

\* C2: once a command without ContinueOnError has failed, in the requested task
\* or in any dependency at any depth, the call does nothing more than return
\* errors up the chain: no command runs and no dependency is started after it,
\* and the value returned, at every level and by the call itself, is an error.
C2_FirstFailureAborts ==
    \A p \in 1..Len(log) :
        FatalAt(p) =>
            /\ \A q \in (p + 1)..Len(log) : log[q].ev = "return" /\ ~log[q].ok
            /\ ret.k = "err"
            /\ ret.kind = "CommandFailed"

\* C2 witness: the call has returned after a command without the flag failed in
\* a dependency whose next command has the flag, under a task whose own first
\* command has the flag
C2_Witness ==
    /\ stack = <<>>
    /\ \E p \in 1..Len(log) :
           /\ FatalAt(p)
           /\ log[p].parent # 0
           /\ log[p].name = TaskB /\ log[p].n = 1
           /\ log[1].name = TaskA
           /\ TaskNamed(TaskB).Commands[2].ContinueOnError
           /\ TaskNamed(TaskA).Commands[1].ContinueOnError

\* C3: inside one task, a failed command with ContinueOnError is followed by
\* the task's next command, which exits or blocks (or, after the last
\* command, by a return without error), and a task whose only failures have the flag runs all its commands
\* and returns no error; a failed command without the flag is followed at once
\* by the task's return with an error, before its next command.
C3_ContinueOnError ==
    /\ \A p \in 1..(Len(log) - 1) :
           /\ ForgivenAt(p) =>
                  /\ log[p + 1].id = log[p].id
                  /\ IF log[p].n < Len(TaskNamed(log[p].name).Commands)
                     THEN /\ log[p + 1].ev \in {"cmd", "echo", "blocked"}
                          /\ log[p + 1].n = log[p].n + 1
                     ELSE log[p + 1].ev = "return" /\ log[p + 1].ok
           /\ FatalAt(p) =>
                  /\ log[p + 1].ev = "return" /\ log[p + 1].id = log[p].id /\ ~log[p + 1].ok
                  /\ \A q \in (p + 1)..Len(log) :
                         log[q].id = log[p].id => log[q].ev \notin OwnEvents
    /\ \A r \in 1..Len(log) :
           (/\ log[r].ev = "return"
            /\ \E p \in 1..(r - 1) : log[p].id = log[r].id /\ ForgivenAt(p)
            /\ \A p \in 1..(r - 1) : log[p].id = log[r].id => ~FatalAt(p))
               => /\ log[r].ok
                  /\ \E q \in 1..(r - 1) :
                         log[q].ev = "enter" /\ log[q].id = log[r].id /\ RanWhole(q, r)

\* C3 witness: an activation of a whose first command (with the flag) failed and
\* was followed by its second command, which failed without the flag and ended
\* the task before the third
C3_Witness ==
    \E p \in 1..(Len(log) - 2) :
        /\ log[p].name = TaskA /\ log[p].n = 1 /\ ForgivenAt(p)
        /\ log[p + 1].id = log[p].id /\ log[p + 1].n = 2 /\ FatalAt(p + 1)
        /\ log[p + 2].ev = "return" /\ log[p + 2].id = log[p].id

\* the position at which the activation that returns at position r was entered
EnteredAt(r) == CHOOSE q \in 1..r : log[q].ev = "enter" /\ log[q].id = log[r].id

\* the argument names declared by the tasks run from position q to position r
DeclaredWithin(q, r) ==
    UNION { {TaskNamed(log[k].name).Arguments[i] :
                 i \in 1..Len(TaskNamed(log[k].name).Arguments)}
            : k \in {j \in q..r : log[j].ev = "enter" /\ Resolves(log[j].name)} }

\* name is bound in environment a exactly as in environment b
SameBinding(a, b, name) ==
    /\ name \in DOMAIN a <=> name \in DOMAIN b
    /\ name \in DOMAIN a => a[name] = b[name]

\* C4: when a call of RunTaskWithArgs returns, every argument name declared by
\* the task or by a task run beneath it is bound in the environment exactly as
\* it was when the call was entered.
C4_BindingsRestored ==
    \A r \in 1..Len(log) :
        log[r].ev = "return" =>
            \A name \in DeclaredWithin(EnteredAt(r), r) :
                SameBinding(log[r].env, log[EnteredAt(r)].env, name)

\* the top activation has been entered and has done nothing yet
JustEntered ==
    /\ stack # <<>>
    /\ log[Len(log)].ev = "enter"
    /\ log[Len(log)].id = Top.id

\* C5: right after a call has bound its arguments, the i-th declared argument
\* is bound to the i-th value passed, or to the empty string if fewer values
\* were passed; values beyond the declared arguments bind nothing, every other
\* name is bound as before the call, and the call has not failed.
C5_PositionalBinding ==
    JustEntered =>
        LET arguments == Top.task.Arguments
            args == Top.args
            declared == {arguments[i] : i \in 1..Len(arguments)}
            was == log[Len(log)].env
        IN  /\ \A i \in 1..Len(arguments) :
                   /\ arguments[i] \in DOMAIN env
                   /\ env[arguments[i]] = IF i <= Len(args) THEN args[i] ELSE <<>>
            /\ DOMAIN env = (DOMAIN was) \cup declared
            /\ \A name \in (DOMAIN env) \ declared : env[name] = was[name]
            /\ ret = None

\* C5 witness: a, which declares two arguments, has been entered with one value
C5_Witness ==
    /\ JustEntered
    /\ Top.name = TaskA
    /\ Len(Top.task.Arguments) = 2
    /\ Len(Top.args) = 1

\* C6: while a task run as a dependency executes its own task, the invocation's
\* argument list is empty and every argument it declares is bound to the empty
\* string, whatever the requested task was given.
C6_DependencyNoArgs ==
    \A p \in 1..Len(log) :
        (log[p].ev \in OwnEvents /\ log[p].parent # 0) =>
            /\ log[p].taskArgs = <<>>
            /\ log[p].args = <<>>
            /\ \A i \in 1..Len(TaskNamed(log[p].name).Arguments) :
                   LET name == TaskNamed(log[p].name).Arguments[i]
                   IN  name \in DOMAIN log[p].env /\ log[p].env[name] = <<>>

\* C6 witness: b, which declares x, runs a command as a dependency of a, which
\* declares x too and was called with two values
C6_Witness ==
    \E p \in 1..Len(log) :
        /\ log[p].ev = "cmd" /\ log[p].name = TaskB /\ log[p].parent # 0
        /\ log[1].name = TaskA /\ Len(log[1].args) = 2

\* the names of the dependencies through which the call at position q was reached
RECURSIVE DependencyPath(_)
DependencyPath(q) ==
    IF log[q].parent = 0 THEN <<>>
    ELSE DependencyPath(CHOOSE k \in 1..q :
                            log[k].ev = "enter" /\ log[k].id = log[q].parent)
         \o <<log[q].name>>

\* C9: when a called name does not resolve, the call returns at once with a
\* task-not-found error for that name.  If it was called as dependency D of a
\* task T, then the dependencies T lists before D have run, T calls no
\* dependency after D and executes none of its own commands, nothing at all runs
\* afterwards, and the call returns the task-not-found error wrapped with the
\* names of the dependencies through which D was reached.
C9_TaskNotFound ==
    \A q \in 1..Len(log) :
        (log[q].ev = "enter" /\ ~Resolves(log[q].name)) =>
            /\ q < Len(log)
            /\ log[q + 1].ev = "return" /\ log[q + 1].id = log[q].id /\ ~log[q + 1].ok
            /\ \A k \in (q + 1)..Len(log) : log[k].ev = "return" /\ ~log[k].ok
            /\ \A k \in 1..Len(log) :
                   log[k].id = log[q].parent => log[k].ev \notin OwnEvents
            /\ log[q].parent # 0 =>
                   LET T == CHOOSE k \in 1..q :
                                log[k].ev = "enter" /\ log[k].id = log[q].parent
                       deps == TaskNamed(log[T].name).Dependencies
                       kids == KidsBefore(log[T].id, q)
                   IN  /\ Len(kids) < Len(deps)
                       /\ deps[Len(kids) + 1] = log[q].name
                       /\ \A i \in 1..Len(kids) :
                              /\ log[kids[i]].name = deps[i]
                              /\ \E r \in (kids[i] + 1)..(q - 1) :
                                     /\ log[r].ev = "return" /\ log[r].ok
                                     /\ log[r].id = log[kids[i]].id
                                     /\ RanWhole(kids[i], r)
            /\ ret.k = "err"
            /\ ret.kind = "TaskNotFound"
            /\ ret.task = log[q].name
            /\ stack = <<>> => ret.wraps = DependencyPath(q)

\* C9 witness: the call has returned a task-not-found error for the second
\* dependency of the requested task, after the first dependency ran a command
C9_Witness ==
    /\ stack = <<>>
    /\ ret.kind = "TaskNotFound"
    /\ ret.wraps = <<Missing>>
    /\ \E q \in 1..Len(log), p \in 1..Len(log) :
           /\ p < q
           /\ log[q].ev = "enter" /\ log[q].name = Missing /\ log[q].parent = log[1].id
           /\ log[p].ev = "cmd" /\ log[p].parent = log[1].id

\* the tasks held anywhere in a forest of namespaces
RECURSIVE TasksIn(_)
TasksIn(namespaces) ==
    UNION { {namespaces[i].Tasks[k] : k \in 1..Len(namespaces[i].Tasks)}
                \cup TasksIn(namespaces[i].Namespaces)
            : i \in 1..Len(namespaces) }

\* the positions of the flat task list that hold the name exactly
FlatMatches(name) == {i \in 1..Len(quakefile.Tasks) : quakefile.Tasks[i].Name = name}

\* C7: findTask returns the first entry of the flat task list that has exactly
\* the requested name, also for a name holding a colon; with no flat match it
\* finds nothing for a name without a colon, and what it finds for a name with
\* a colon is a task of the namespace tree.
C7_FlatListFirst ==
    result # <<>> =>
        LET found == result[1]
            flat == FlatMatches(probe)
        IN  /\ flat # {} =>
                   /\ found # Nil
                   /\ \E i \in flat : /\ found[1] = quakefile.Tasks[i]
                                      /\ \A j \in flat : i <= j
            /\ (flat = {} /\ ~Contains(probe, ":")) => found = Nil
            /\ (flat = {} /\ found # Nil) =>
                   /\ Contains(probe, ":")
                   /\ found[1] \in TasksIn(quakefile.Namespaces)

\* C7 witness: a:t was looked up where the flat list holds a task named a:t and
\* namespace a holds a task t, and the flat one was returned
C7_Witness ==
    /\ result # <<>>
    /\ probe = SegA \o <<":">> \o NameT
    /\ FlatMatches(probe) # {}
    /\ findNamespacedTask(Split(probe, ":"), quakefile.Namespaces) # Nil
    /\ result[1] = Ptr(Tagged(probe, "flat"))

\* there is a chain of nested namespaces named parts[1] .. parts[k] whose last
\* namespace holds a task named parts[k+1]
RECURSIVE ChainExists(_, _)
ChainExists(parts, namespaces) ==
    /\ Len(parts) >= 2
    /\ \E i \in 1..Len(namespaces) :
           /\ namespaces[i].Name = parts[1]
           /\ IF Len(parts) = 2
              THEN \E k \in 1..Len(namespaces[i].Tasks) :
                       namespaces[i].Tasks[k].Name = parts[2]
              ELSE ChainExists(Tail(parts), namespaces[i].Namespaces)

\* C8: for a name with a colon and no flat match, the lookup returns a task if
\* and only if the namespace tree holds a chain of nested namespaces named by
\* the leading segments whose last namespace holds a task named by the last
\* segment, also when sibling namespaces share a name.
C8_NamespaceWalk ==
    (result # <<>> /\ Contains(probe, ":") /\ FlatMatches(probe) = {}) =>
        (result[1] # Nil <=> ChainExists(Split(probe, ":"), quakefile.Namespaces))

\* C10: an Or yields the string its left side resolves to when that is not
\* empty and the string its right side resolves to otherwise; an identifier set
\* neither in the evaluator's environment nor in the host's resolves to the
\* empty string.
C10_OrFallback ==
    result # <<>> =>
        /\ probe.type = "Or" =>
               result[1] = IF expressionToString(env, hostEnv, probe.Left) # <<>>
                           THEN expressionToString(env, hostEnv, probe.Left)
                           ELSE expressionToString(env, hostEnv, probe.Right)
        /\ (/\ probe.type = "Identifier"
            /\ probe.Name \notin DOMAIN env
            /\ probe.Name \notin DOMAIN hostEnv) => result[1] = <<>>

\* C10 witness: {{ m || "d" }} with m set nowhere has yielded "d"
C10_Witness ==
    /\ result = << <<"d">> >>
    /\ probe = Or(Identifier(VarM), StringLiteral(<<"d">>))
    /\ VarM \notin DOMAIN env
    /\ VarM \notin DOMAIN hostEnv

\* C11: an access expression env.NAME, built as the parser builds it (AccessId
\* whose Object is Identifier env), resolves to NAME's value in the evaluator's
\* environment if bound there, else to the host's value, else to the empty
\* string.
C11_EnvAccess ==
    (/\ result # <<>>
     /\ probe.type = "AccessId"
     /\ probe.Object = Identifier(<<"e", "n", "v">>)) =>
        result[1] = Lookup(env, hostEnv, probe.Property)[2]

\* ---------------------------------------------------------------------------
\* commandToString applied to one command
\* ---------------------------------------------------------------------------

MaxElements == 2

\* the elements a command line is made of
CmdElements ==
    { StringElement(<<"p", " ">>), StringElement(<<>>),
      VariableElement(VarX), VariableElement(VarY), VariableElement(VarM),
      BacktickElement(<<"c">>),
      ExpressionElement(Or(Identifier(VarX), StringLiteral(<<"d">>))) }

CmdProbes ==
    {Command(els, FALSE, FALSE) : els \in SeqsUpTo(CmdElements, MaxElements)}

InitCmd ==
    /\ env \in ExprEnvs
    /\ hostEnv \in ExprHosts
    /\ probe \in CmdProbes
    /\ result = <<>>
    /\ quakefile = QuakeFile(<<>>, <<>>, <<>>)
    /\ taskArgs = <<>>
    /\ stack = <<>>
    /\ ret = None
    /\ log = <<>>
    /\ calls = 0
    /\ nextId = 1

\* cmdStr := e.commandToString(cmd)
RenderCommand ==
    /\ result = <<>>
    /\ result' = <<commandToString(env, hostEnv, probe)>>
    /\ UNCHANGED <<quakefile, hostEnv, env, taskArgs, stack, ret, log, calls, nextId, probe>>

SpecCmd == InitCmd /\ [][RenderCommand]_vars

\* the text the shell is to receive for one element that is no expression
ShellText(el) ==
    CASE el.type = "StringElement" -> el.Value
      [] el.type = "BacktickElement" -> <<Backtick>> \o el.Command \o <<Backtick>>
      [] el.type = "VariableElement" ->
             IF el.Name \in DOMAIN env THEN env[el.Name]
             ELSE IF el.Name \in DOMAIN hostEnv THEN hostEnv[el.Name]
             ELSE <<"$">> \o el.Name

\* C12: the rendered command is the concatenation, in order, of its elements'
\* texts: a StringElement verbatim, a VariableElement as the evaluator's value
\* if bound (even to the empty string), else the host's value if set, else the
\* literal $NAME, and a BacktickElement as its command between backticks.
C12_CommandRendering ==
    (/\ result # <<>>
     /\ \A i \in 1..Len(probe.Elements) :
            probe.Elements[i].type # "ExpressionElement") =>
        result[1] = Join([i \in 1..Len(probe.Elements) |-> ShellText(probe.Elements[i])])

\* C12 witness: `$x` followed by a backtick span, x bound to the empty string
\* by the evaluator and to h by the host, has been rendered as the span alone
C12_Witness ==
    /\ result = << <<Backtick, "c", Backtick>> >>
    /\ probe = Command(<<VariableElement(VarX), BacktickElement(<<"c">>)>>, FALSE, FALSE)
    /\ VarX \in DOMAIN env /\ env[VarX] = <<>>
    /\ VarX \in DOMAIN hostEnv /\ hostEnv[VarX] = <<"h">>

\* ---------------------------------------------------------------------------
\* New applied to the file-scope variables of one Quakefile
\* ---------------------------------------------------------------------------

MaxVariables == 3

\*   x = "1"     x = "$y"     y = "2$x"     y = "3"     m = `c`
\*   y = {{ x || "d" }}, held as an Expression, and y = {{x}}, held as the
\*   text the grammar's expressionValue rule keeps
FileVariables ==
    { PlainVariable(VarX, <<"\"", "1", "\"">>),
      PlainVariable(VarX, <<"\"", "$", "y", "\"">>),
      PlainVariable(VarY, <<"\"", "2", "$", "x", "\"">>),
      ExpressionVariable(VarY, Or(Identifier(VarX), StringLiteral(<<"d">>))),
      ExpressionVariable(VarY, GoString(<<"{", "{", "x", "}", "}">>)),
      PlainVariable(VarY, <<"\"", "3", "\"">>),
      SubstitutionVariable(VarM, <<Backtick, "c", Backtick>>) }

InitNew ==
    /\ \E variables \in SeqsUpTo(FileVariables, MaxVariables) :
           /\ quakefile = QuakeFile(<<>>, <<>>, variables)
           /\ \E out \in ShellOutputs : probe = [i \in 1..Len(variables) |-> out]
    /\ hostEnv \in HostEnvs
    /\ env = <<>>
    /\ result = <<>>
    /\ taskArgs = <<>>
    /\ stack = <<>>
    /\ ret = None
    /\ log = <<>>
    /\ calls = 0
    /\ nextId = 1

\* evaluator.New(quakefile); probe holds the shell's results
NewEvaluator ==
    /\ result = <<>>
    /\ env' = New(quakefile, hostEnv, probe)
    /\ result' = <<Len(quakefile.Variables)>>
    /\ UNCHANGED <<quakefile, hostEnv, taskArgs, stack, ret, log, calls, nextId, probe>>

SpecNew == InitNew /\ [][NewEvaluator]_vars

\* the last declaration of name n among the first k variables, 0 if none
LastDeclared(n, k) ==
    IF \E j \in 1..k : quakefile.Variables[j].Name = n
    THEN CHOOSE j \in 1..k :
             /\ quakefile.Variables[j].Name = n
             /\ \A l \in (j+1)..k : quakefile.Variables[l].Name # n
    ELSE 0

\* the value of the k-th variable, computed from the values of the variables
\* declared before it alone
RECURSIVE ValueInOrder(_)
ValueInOrder(k) ==
    LET before == {quakefile.Variables[j].Name : j \in 1..(k-1)}
        envBefore == [n \in before |-> ValueInOrder(LastDeclared(n, k - 1))]
    IN  evaluateVariable(envBefore, hostEnv, quakefile.Variables[k], probe[k])

\* C13: after New the environment holds exactly the declared names, each with
\* the value of its last declaration, and the value of the i-th variable is
\* computed from the variables 1..i-1 (and the host environment) alone: a
\* reference to a variable declared only later resolves as if it was unset.
C13_DeclarationOrder ==
    result # <<>> =>
        /\ DOMAIN env = {quakefile.Variables[j].Name : j \in 1..Len(quakefile.Variables)}
        /\ \A n \in DOMAIN env :
               env[n] = ValueInOrder(LastDeclared(n, Len(quakefile.Variables)))
        /\ \A k \in 1..Len(quakefile.Variables) :
               (/\ quakefile.Variables[k] = PlainVariable(VarX, <<"\"", "$", "y", "\"">>)
                /\ LastDeclared(VarX, Len(quakefile.Variables)) = k
                /\ LastDeclared(VarY, k - 1) = 0
                /\ VarY \notin DOMAIN hostEnv) => env[VarX] = <<>>

\* C13 witness: x = "$y" followed by y = "3", y not set in the host, has been
\* loaded: x is empty and y is 3
C13_Witness ==
    /\ result # <<>>
    /\ quakefile.Variables = << PlainVariable(VarX, <<"\"", "$", "y", "\"">>),
                                PlainVariable(VarY, <<"\"", "3", "\"">>) >>
    /\ VarY \notin DOMAIN hostEnv
    /\ env = [n \in {VarX, VarY} |-> IF n = VarX THEN <<>> ELSE <<"3">>]

\* the number of dependency paths that lead from the task named from to the
\* task named target (1 from a task to itself)
RECURSIVE PathsTo(_, _)
RECURSIVE PathsVia(_, _)
PathsTo(from, target) ==
    IF from = target THEN 1 ELSE PathsVia(TaskNamed(from).Dependencies, target)
PathsVia(deps, target) ==
    IF deps = <<>> THEN 0
    ELSE PathsTo(Head(deps), target) + PathsVia(Tail(deps), target)

\* the positions at which an activation of the task named name was entered
EnteredAs(name) == {q \in 1..Len(log) : log[q].ev = "enter" /\ log[q].name = name}

\* C14: when a call of RunTaskWithArgs has returned without error, every task
\* has been entered once per dependency path that leads to it from the task
\* called, and each of these activations ran the task's whole command list;
\* this holds for the second call on an evaluator as for the first.
C14_NotMemoized ==
    (stack = <<>> /\ calls > 0 /\ ret.k = "ok") =>
        \A name \in {log[q].name : q \in 1..Len(log)}
                      \cup {quakefile.Tasks[i].Name : i \in 1..Len(quakefile.Tasks)} :
            /\ Cardinality(EnteredAs(name)) = PathsTo(log[1].name, name)
            /\ \A q \in EnteredAs(name) :
                   \E r \in (q + 1)..Len(log) :
                       /\ log[r].ev = "return" /\ log[r].id = log[q].id /\ log[r].ok
                       /\ RanWhole(q, r)

\* C14 witness: the second call on an evaluator has run a (which depends on b
\* and default, b on default): default was entered twice and both times ran
\* its two commands
C14_Witness ==
    /\ stack = <<>> /\ calls = 2 /\ ret.k = "ok"
    /\ log[1].name = TaskA
    /\ Cardinality(EnteredAs(Default)) = 2
    /\ Cardinality({k \in 1..Len(log) : log[k].name = Default /\ log[k].ev \in OwnEvents}) = 4

\* ---------------------------------------------------------------------------
\* realMain: the task groups of one command line, run one after the other
\* ---------------------------------------------------------------------------

DashDash == <<"-", "-">>

\* a variant without the "add the last group if not empty" after the loop
RECURSIVE SplitGroupsWithoutLast(_, _, _, _)
SplitGroupsWithoutLast(args, i, taskGroups, currentGroup) ==
    IF i > Len(args)
    THEN taskGroups
    ELSE IF args[i] = DashDash
    THEN IF Len(currentGroup) > 0
         THEN SplitGroupsWithoutLast(args, i + 1, Append(taskGroups, currentGroup), <<>>)
         ELSE SplitGroupsWithoutLast(args, i + 1, taskGroups, currentGroup)
    ELSE SplitGroupsWithoutLast(args, i + 1, taskGroups, Append(currentGroup, args[i]))

\* the loop "for _, arg := range args" of realMain, from the i-th argument on,
\* and the "add the last group if not empty" after it
RECURSIVE SplitGroupsFrom(_, _, _, _)
SplitGroupsFrom(args, i, taskGroups, currentGroup) ==
    IF i > Len(args)
    THEN IF Len(currentGroup) > 0 THEN Append(taskGroups, currentGroup) ELSE taskGroups
    ELSE IF args[i] = DashDash
    THEN IF Len(currentGroup) > 0
         THEN SplitGroupsFrom(args, i + 1, Append(taskGroups, currentGroup), <<>>)
         ELSE SplitGroupsFrom(args, i + 1, taskGroups, currentGroup)
    ELSE SplitGroupsFrom(args, i + 1, taskGroups, Append(currentGroup, args[i]))

SplitGroups(args) == SplitGroupsFrom(args, 1, <<>>, <<>>)

\* the calls of runTask realMain makes: runTask("", nil) without a group,
\* runTask(group[0], group[1:]) for each group otherwise
RunTaskCalls(taskGroups) ==
    IF Len(taskGroups) = 0 THEN << [taskName |-> <<>>, taskArgs |-> <<>>] >>
    ELSE [i \in 1..Len(taskGroups) |->
             [taskName |-> taskGroups[i][1], taskArgs |-> Tail(taskGroups[i])]]

\* a variant that goes on to the next group whatever runTask returned
StopsNever(r) == FALSE

\* "if err := runTask(...); err != nil { ...; return 1 }"
Stops(r) == r.k = "err"

\* the command lines: flags.Args()
CommandLines ==
    { <<>>,
      <<DashDash>>,
      <<TaskA, <<"v">>>>,
      <<TaskB, DashDash, TaskA, <<"v">>, <<"w">>>>,
      <<Missing, DashDash, TaskB>>,
      <<TaskB, DashDash, DashDash, TaskG, <<"v">>, DashDash>>,
      <<DashDash, TaskG, DashDash, Missing, DashDash, TaskB>>,
      <<NsU, <<"v">>, DashDash, Default, DashDash, TaskG>> }

\* realMain's locals (args, taskGroups, the index gi of the loop over the
\* groups), where it stands (pc), and the history runs of its runTask calls
MainState(args, taskGroups, gi, pc, runs) ==
    [args |-> args, taskGroups |-> taskGroups, gi |-> gi, pc |-> pc, runs |-> runs]

InitMain ==
    /\ quakefile = QuakeFile(<<>>, <<>>, <<>>)
    /\ hostEnv \in HostEnvs
    /\ \E args \in CommandLines : probe = MainState(args, <<>>, 0, "split", <<>>)
    /\ result = <<>>
    /\ env = <<>>
    /\ taskArgs = <<>>
    /\ stack = <<>>
    /\ ret = None
    /\ log = <<>>
    /\ calls = 0
    /\ nextId = 1

\* realMain splits the arguments into groups
SplitArgs ==
    /\ probe.pc = "split"
    /\ probe' = [probe EXCEPT !.taskGroups = SplitGroups(probe.args),
                              !.gi = 1, !.pc = "load"]
    /\ UNCHANGED <<quakefile, hostEnv, env, taskArgs, stack, ret, log, calls, nextId, result>>

\* the error runTask returns before an evaluator exists: from findQuakefile,
\* os.Getwd, os.Chdir or loadAllQuakefiles
LoadFailed == [k |-> "err", kind |-> "LoadFailed", task |-> <<>>, wraps |-> <<>>]

\* runTask up to evaluator.New(&result): the Quakefile and the qtasks files are
\* found, read and parsed again for every group (an earlier group's commands
\* may have changed or removed them), then a new evaluator is made; when the
\* files cannot be loaded runTask returns the error and no task is entered
NewGroupEvaluator ==
    /\ probe.pc = "load"
    /\ \E loaded \in BOOLEAN :
          IF loaded
          THEN /\ \E qf \in Quakefiles :
                      /\ quakefile' = qf
                      /\ \E outs \in ShellResults(qf) : env' = New(qf, hostEnv, outs)
               /\ taskArgs' = <<>>
               /\ probe' = [probe EXCEPT !.pc = "call"]
               /\ UNCHANGED <<ret, log>>
          ELSE LET call == RunTaskCalls(probe.taskGroups)[probe.gi]
               IN  /\ ret' = LoadFailed
                   /\ log' = <<>>
                   /\ probe' = [probe EXCEPT
                                   !.pc = "wait",
                                   !.runs = Append(@, [gi |-> probe.gi,
                                                       taskName |-> call.taskName,
                                                       taskArgs |-> call.taskArgs,
                                                       loaded |-> FALSE,
                                                       returned |-> FALSE, ok |-> FALSE])]
                   /\ UNCHANGED <<quakefile, env, taskArgs>>
    /\ UNCHANGED <<hostEnv, stack, calls, nextId, result>>

\* runTask calls eval.RunTaskWithArgs(taskName, args)
CallGroup ==
    /\ probe.pc = "call"
    /\ LET call == RunTaskCalls(probe.taskGroups)[probe.gi]
       IN  /\ Enter(call.taskName, call.taskArgs, 0, 1, <<>>)
           /\ probe' = [probe EXCEPT
                           !.pc = "wait",
                           !.runs = Append(@, [gi |-> probe.gi, taskName |-> call.taskName,
                                               taskArgs |-> call.taskArgs,
                                               loaded |-> TRUE,
                                               returned |-> FALSE, ok |-> FALSE])]
    /\ calls' = calls + 1
    /\ UNCHANGED <<quakefile, hostEnv, result>>

\* runTask returned to realMain: return 1 on an error, go on to the next
\* group otherwise, and return 0 after the last one
GroupReturned ==
    /\ probe.pc = "wait"
    /\ stack = <<>>
    /\ ret # None
    /\ LET runs == [probe.runs EXCEPT ![Len(probe.runs)].returned = TRUE,
                                      ![Len(probe.runs)].ok = (ret.k = "ok")]
       IN  IF Stops(ret)
           THEN /\ result' = <<1>>
                /\ probe' = [probe EXCEPT !.pc = "exit", !.runs = runs]
           ELSE IF probe.gi < Len(RunTaskCalls(probe.taskGroups))
           THEN /\ probe' = [probe EXCEPT !.pc = "load", !.gi = @ + 1, !.runs = runs]
                /\ UNCHANGED result
           ELSE /\ result' = <<0>>
                /\ probe' = [probe EXCEPT !.pc = "exit", !.runs = runs]
    /\ ret' = None
    /\ UNCHANGED <<quakefile, hostEnv, env, taskArgs, stack, log, calls, nextId>>

NextMain ==
    \/ SplitArgs \/ NewGroupEvaluator \/ CallGroup \/ GroupReturned
    \/ RunDep \/ DepReturned \/ ExecCommand \/ ExecGoTask \/ TaskDone

SpecMain == InitMain /\ [][NextMain]_vars

\* C15: the groups of a command line are run in the listed order, each with
\* its first word as the task name and the rest as arguments; a group is
\* started only when every group before it has returned without error; once a
\* group has failed no further group is started and the exit code is 1; the
\* exit code is 0 only when every group has run and none failed.
C15_GroupsInOrder ==
    LET runs == probe.runs
        todo == RunTaskCalls(probe.taskGroups)
    IN  /\ Len(runs) <= Len(todo)
        /\ \A k \in 1..Len(runs) :
               /\ runs[k].gi = k
               /\ runs[k].taskName = todo[k].taskName
               /\ runs[k].taskArgs = todo[k].taskArgs
               /\ k < Len(runs) => runs[k].returned /\ runs[k].ok
               /\ (runs[k].returned /\ ~runs[k].ok) =>
                      (probe.pc = "exit" /\ result = <<1>> /\ stack = <<>>)
        /\ (stack # <<>>) => (runs # <<>> /\ ~runs[Len(runs)].returned)
        /\ result # <<>> => probe.pc = "exit"
        /\ result = <<0>> =>
               (Len(runs) = Len(todo) /\ \A k \in 1..Len(runs) : runs[k].ok)
        /\ result = <<1>> => (runs # <<>> /\ ~runs[Len(runs)].ok)

\* C15 witness: of three groups the first returned without error and the
\* second failed; the third was never started and the exit code is 1
C15_Witness ==
    /\ Len(probe.taskGroups) = 3
    /\ Len(probe.runs) = 2
    /\ probe.runs[1].ok
    /\ probe.runs[2].returned /\ ~probe.runs[2].ok
    /\ result = <<1>>

\* ---------------------------------------------------------------------------
\* loadAllQuakefiles: the fragments merged, then tasks of the result run
\* ---------------------------------------------------------------------------

MaxFiles == 3

\* the loop "for _, file := range files" of mergeQuakefiles, from the i-th file
RECURSIVE mergeQuakefilesFrom(_, _, _)
mergeQuakefilesFrom(merged, files, i) ==
    IF i > Len(files) THEN merged
    ELSE mergeQuakefilesFrom(
             [merged EXCEPT !.Tasks = @ \o files[i].Tasks,
                            !.Variables = @ \o files[i].Variables,
                            !.Namespaces = @ \o files[i].Namespaces],
             files, i + 1)

\* a variant that appends the files from the last one to the first
mergeQuakefilesReversed(files) ==
    mergeQuakefilesFrom(QuakeFile(<<>>, <<>>, <<>>),
                        [i \in 1..Len(files) |-> files[Len(files) + 1 - i]], 1)

\* mergeQuakefiles(files...)
mergeQuakefiles(files) == mergeQuakefilesFrom(QuakeFile(<<>>, <<>>, <<>>), files, 1)

\* the k-th task of the f-th file: its one command is the word "fk", f the
\* letter of the file (m for the main Quakefile)
FileLetters == <<"m", "q", "r", "s", "u">>
Marked(name, dependencies, f, k) ==
    Task(name, <<>>, dependencies,
         <<Command(<<StringElement(<<FileLetters[f], k>>)>>, FALSE, FALSE)>>)

\* the task lists of a file:  (none)  |  task t  |  task a => t ; task t  |
\* task t ; task t
FileTasks(f) ==
    << <<>>,
       <<Marked(NameT, <<>>, f, "1")>>,
       <<Marked(SegA, <<NameT>>, f, "1"), Marked(NameT, <<>>, f, "2")>>,
       <<Marked(NameT, <<>>, f, "1"), Marked(NameT, <<>>, f, "2")>> >>

\* the namespace lists of a file:  (none)  |  namespace a { task t }
FileNamespaces(f) ==
    << <<>>, <<Namespace(SegA, <<Marked(NameT, <<>>, f, "3")>>, <<>>)>> >>

\* the parsed files, main Quakefile first, each of one of the shapes above
FileLists ==
    UNION { { [f \in 1..n |-> QuakeFile(FileTasks(f)[shape[f][1]],
                                         FileNamespaces(f)[shape[f][2]], <<>>)] :
                  shape \in [1..n -> (1..4) \X (1..2)] } : n \in 1..MaxFiles }

MergedNames == {NameT, SegA, SegA \o <<":">> \o NameT}

InitMerge ==
    /\ probe \in FileLists
    /\ quakefile = QuakeFile(<<>>, <<>>, <<>>)
    /\ hostEnv = <<>>
    /\ env = <<>>
    /\ result = <<>>
    /\ taskArgs = <<>>
    /\ stack = <<>>
    /\ ret = None
    /\ log = <<>>
    /\ calls = 0
    /\ nextId = 1

\* runTask: loadAllQuakefiles merges the parsed files, evaluator.New
LoadAllQuakefiles ==
    /\ result = <<>>
    /\ quakefile' = mergeQuakefiles(probe)
    /\ \E outs \in ShellResults(quakefile') : env' = New(quakefile', hostEnv, outs)
    /\ result' = <<Len(probe)>>
    /\ UNCHANGED <<hostEnv, taskArgs, stack, ret, log, calls, nextId, probe>>

\* runTask: eval.RunTaskWithArgs(name, nil) on the merged Quakefile
RunMerged ==
    /\ result # <<>>
    /\ calls = 0
    /\ stack = <<>>
    /\ calls' = calls + 1
    /\ \E name \in MergedNames : Enter(name, <<>>, 0, 1, <<>>)
    /\ UNCHANGED <<quakefile, hostEnv, probe, result>>

NextMerge ==
    LoadAllQuakefiles \/ RunMerged \/ RunDep \/ DepReturned \/ ExecCommand \/ TaskDone

SpecMerge == InitMerge /\ [][NextMerge]_vars

\* the number of top-level tasks of the files before the f-th
RECURSIVE TasksBefore(_)
TasksBefore(f) == IF f = 1 THEN 0 ELSE TasksBefore(f - 1) + Len(probe[f - 1].Tasks)

\* the first task named name in the files' order: the earliest file that has
\* one, and the earliest such task in that file
EarliestNamed(name) ==
    LET has == {f \in 1..Len(probe) : FirstNamed(probe[f].Tasks, name) # 0}
        f == CHOOSE g \in has : \A h \in has : g <= h
    IN  probe[f].Tasks[FirstNamed(probe[f].Tasks, name)]

\* C16: the merged task list is the files' task lists one after the other, in
\* the files' order and with every duplicate kept; every command run for a
\* name that top-level tasks share is a command of the earliest task of that
\* name (main Quakefile first), never one of a later duplicate.
C16_MergeOrder ==
    result # <<>> =>
        /\ Len(quakefile.Tasks) = TasksBefore(Len(probe)) + Len(probe[Len(probe)].Tasks)
        /\ \A f \in 1..Len(probe) : \A k \in 1..Len(probe[f].Tasks) :
               quakefile.Tasks[TasksBefore(f) + k] = probe[f].Tasks[k]
        /\ \A p \in 1..Len(log) :
               (/\ log[p].ev \in {"cmd", "echo"}
                /\ \E f \in 1..Len(probe) : FirstNamed(probe[f].Tasks, log[p].name) # 0) =>
                   /\ log[p].text = commandToString(env, hostEnv,
                                         EarliestNamed(log[p].name).Commands[log[p].n])
                   /\ TaskNamed(log[p].name) = EarliestNamed(log[p].name)

\* C16 witness: the main Quakefile and a fragment both declare task t (the
\* main one twice); t has run and its command was the first main one's, m1
C16_Witness ==
    /\ result # <<>>
    /\ Len(probe) >= 2
    /\ Len(probe[1].Tasks) = 2 /\ probe[1].Tasks[2].Name = NameT
    /\ FirstNamed(probe[2].Tasks, NameT) # 0
    /\ \E p \in 1..Len(log) :
           log[p].ev = "cmd" /\ log[p].name = NameT /\ log[p].text = <<"m", "1">>

\* ---------------------------------------------------------------------------
\* A file's top-level declarations folded into a QuakeFile, loaded and looked up
\* ---------------------------------------------------------------------------

MaxDeclarations == 3

\* what the rule topLevelElement returns: a Task, a Variable, a Namespace, a
\* FileNamespaceDirective, or nil for a comment
TaskDecl(task) == [type |-> "Task", value |-> task]
VariableDecl(variable) == [type |-> "Variable", value |-> variable]
NamespaceDecl(namespace) == [type |-> "Namespace", value |-> namespace]
FileNamespaceDirective(name) == [type |-> "FileNamespaceDirective", Name |-> name]
CommentDecl == [type |-> "nil"]

\* the loop "for _, elem := range elems" of the rule quakeFile's action
RECURSIVE quakeFileFrom(_, _, _)
quakeFileFrom(qf, elems, i) ==
    IF i > Len(elems) THEN qf
    ELSE LET e == elems[i]
         IN  quakeFileFrom(
                 CASE e.type = "Task" -> [qf EXCEPT !.Tasks = Append(@, e.value)]
                   [] e.type = "Namespace" -> [qf EXCEPT !.Namespaces = Append(@, e.value)]
                   [] e.type = "Variable" -> [qf EXCEPT !.Variables = Append(@, e.value)]
                   [] e.type = "FileNamespaceDirective" ->
                          [qf EXCEPT !.FileNamespace = e.Name]
                   [] OTHER -> qf,
                 elems, i + 1)

\* the action of the rule quakeFile: the QuakeFile ParseQuakefile returns
quakeFile(elems) == quakeFileFrom(QuakeFile(<<>>, <<>>, <<>>), elems, 1)

NameU == <<"u">>

\*   namespace a  |  task t { t }  |  task u { u }  |  # comment  |  x = "1"
Declarations ==
    { FileNamespaceDirective(SegA),
      TaskDecl(Tagged(NameT, "t")),
      TaskDecl(Tagged(NameU, "u")),
      CommentDecl,
      VariableDecl(PlainVariable(VarX, <<"\"", "1", "\"">>)) }

DeclaredNames == {NameT, NameU, SegA \o <<":">> \o NameT, SegA \o <<":">> \o NameU}

InitDeclared ==
    /\ \E elems \in SeqsUpTo(Declarations, MaxDeclarations), name \in DeclaredNames :
           probe = [elements |-> elems, name |-> name]
    /\ quakefile = QuakeFile(<<>>, <<>>, <<>>)
    /\ hostEnv = <<>>
    /\ env = <<>>
    /\ result = <<>>
    /\ taskArgs = <<>>
    /\ stack = <<>>
    /\ ret = None
    /\ log = <<>>
    /\ calls = 0
    /\ nextId = 1

\* runTask: the file is parsed, merged (alone) and given to a new evaluator
LoadDeclared ==
    /\ calls = 0
    /\ calls' = 1
    /\ quakefile' = mergeQuakefiles(<<quakeFile(probe.elements)>>)
    /\ \E outs \in ShellResults(quakefile') : env' = New(quakefile', hostEnv, outs)
    /\ UNCHANGED <<hostEnv, taskArgs, stack, ret, log, nextId, probe, result>>

\* RunTaskWithArgs resolves the requested name: e.findTask(probe.name)
FindDeclared ==
    /\ calls = 1
    /\ result = <<>>
    /\ result' = <<findTask(quakefile, probe.name)>>
    /\ UNCHANGED <<quakefile, hostEnv, env, taskArgs, stack, ret, log, calls, nextId, probe>>

SpecDeclared == InitDeclared /\ [][LoadDeclared \/ FindDeclared]_vars

\* C17: a top-level task t declared after a bare directive `namespace NS` is
\* what the evaluator finds under the name NS:t once the file is loaded.
C17_FileNamespacePrefix ==
    result # <<>> =>
        \A i \in 1..Len(probe.elements) : \A j \in (i + 1)..Len(probe.elements) :
            (/\ probe.elements[i].type = "FileNamespaceDirective"
             /\ probe.elements[j].type = "Task"
             /\ probe.name = probe.elements[i].Name \o <<":">> \o probe.elements[j].value.Name)
                => result[1] = Ptr(probe.elements[j].value)

\* ---------------------------------------------------------------------------
\* The AST written to JSON and read back (encoding/json and the AST's methods)
\* ---------------------------------------------------------------------------

MaxJsonTasks == 2

\* a Go slice: nil, or a (possibly empty) list of items
NilSlice == [isNil |-> TRUE, items |-> <<>>]
Slice(items) == [isNil |-> FALSE, items |-> items]

\* the structs of the AST, their slice fields told apart as nil or not
CommandStruct(elements, silent, continueOnError) ==
    [Elements |-> elements, Silent |-> silent, ContinueOnError |-> continueOnError]
TaskStruct(name, arguments, dependencies, commands) ==
    [Name |-> name, Description |-> <<>>, Arguments |-> arguments,
     Dependencies |-> dependencies, Commands |-> commands]
NamespaceStruct(name, tasks, variables, namespaces) ==
    [Name |-> name, Tasks |-> tasks, Variables |-> variables, Namespaces |-> namespaces]
QuakeFileStruct(tasks, namespaces, variables, fileNamespace) ==
    [Tasks |-> tasks, Namespaces |-> namespaces, Variables |-> variables,
     FileNamespace |-> fileNamespace]

\* JSON values
JsonNull == [j |-> "null"]
JsonBool(b) == [j |-> "bool", b |-> b]
JsonString(s) == [j |-> "string", s |-> s]
JsonArray(items) == [j |-> "array", items |-> items]
JsonObject(fields) == [j |-> "object", fields |-> fields]

\* the members of an object: none, and one that `omitempty` may leave out
NoFields == [k \in {} |-> JsonNull]
OmitEmpty(key, empty, value) == IF empty THEN NoFields ELSE key :> value

\* encoding/json on a []string or a slice field without omitempty: nil is null
JsonSlice(slice, items) == IF slice.isNil THEN JsonNull ELSE JsonArray(items)
marshalStrings(slice) ==
    JsonSlice(slice, [i \in 1..Len(slice.items) |-> JsonString(slice.items[i])])

\* marshalExpression
RECURSIVE marshalExpression(_)
marshalExpression(expr) ==
    CASE expr.type = "Identifier" ->
             JsonObject("type" :> JsonString("identifier") @@ "name" :> JsonString(expr.Name))
      [] expr.type = "AccessId" ->
             JsonObject("type" :> JsonString("access")
                        @@ "object" :> marshalExpression(expr.Object)
                        @@ "property" :> JsonString(expr.Property))
      [] expr.type = "StringLiteral" ->
             JsonObject("type" :> JsonString("string") @@ "value" :> JsonString(expr.Value))
      [] expr.type = "Or" ->
             JsonObject("type" :> JsonString("or")
                        @@ "left" :> marshalExpression(expr.Left)
                        @@ "right" :> marshalExpression(expr.Right))

\* Command.MarshalJSON: one tagged object per element
marshalElement(el) ==
    CASE el.type = "StringElement" ->
             JsonObject("type" :> JsonString("string") @@ "value" :> JsonString(el.Value))
      [] el.type = "BacktickElement" ->
             JsonObject("type" :> JsonString("backtick")
                        @@ "command" :> JsonString(el.Command))
      [] el.type = "ExpressionElement" ->
             JsonObject("type" :> JsonString("expression")
                        @@ "expression" :> marshalExpression(el.Expression))
      [] el.type = "VariableElement" ->
             JsonObject("type" :> JsonString("variable") @@ "name" :> JsonString(el.Name))

\* Command.MarshalJSON: elements is made with make, so it is never null
CommandMarshalJSON(c) ==
    JsonObject(
        "elements" :> JsonArray([i \in 1..Len(c.Elements.items) |->
                                    marshalElement(c.Elements.items[i])])
        @@ OmitEmpty("silent", ~c.Silent, JsonBool(c.Silent))
        @@ OmitEmpty("continue_on_error", ~c.ContinueOnError, JsonBool(c.ContinueOnError)))

\* encoding/json on a value of type any that holds nil, a bool, a []any or a
\* map[string]any (what json.Unmarshal puts into such a field)
marshalAny(val) ==
    CASE val.type = "nil" -> JsonNull
      [] val.type = "bool" -> JsonBool(val.b)
      [] val.type = "slice" -> JsonArray(val.items)
      [] val.type = "map" -> JsonObject(val.fields)

\* Variable.MarshalJSON: a string, an Expression, a BacktickElement, or any
\* other value as encoding/json writes it
VariableMarshalJSON(v) ==
    JsonObject(
        "name" :> JsonString(v.Name)
        @@ "value" :> (CASE v.Value.type = "string" -> JsonString(v.Value.Value)
                         [] v.Value.type \in {"Identifier", "AccessId", "StringLiteral", "Or"} ->
                                marshalExpression(v.Value)
                         [] v.Value.type = "BacktickElement" ->
                                JsonObject("type" :> JsonString("backtick")
                                           @@ "command" :> JsonString(v.Value.Command))
                         [] OTHER -> marshalAny(v.Value))
        @@ OmitEmpty("is_expression", ~v.IsExpression, JsonBool(v.IsExpression))
        @@ OmitEmpty("command_substitution", ~v.CommandSubstitution,
                     JsonBool(v.CommandSubstitution))
        @@ OmitEmpty("is_multiline", ~v.IsMultiline, JsonBool(v.IsMultiline)))

\* encoding/json on a Task, by its field tags
marshalTask(t) ==
    JsonObject(
        "name" :> JsonString(t.Name)
        @@ OmitEmpty("description", t.Description = <<>>, JsonString(t.Description))
        @@ OmitEmpty("arguments", Len(t.Arguments.items) = 0, marshalStrings(t.Arguments))
        @@ OmitEmpty("dependencies", Len(t.Dependencies.items) = 0,
                     marshalStrings(t.Dependencies))
        @@ "commands" :> JsonSlice(t.Commands,
                             [i \in 1..Len(t.Commands.items) |->
                                 CommandMarshalJSON(t.Commands.items[i])]))

marshalTasks(slice) ==
    JsonSlice(slice, [i \in 1..Len(slice.items) |-> marshalTask(slice.items[i])])
marshalVariables(slice) ==
    JsonSlice(slice, [i \in 1..Len(slice.items) |-> VariableMarshalJSON(slice.items[i])])

\* encoding/json on a Namespace, by its field tags
RECURSIVE marshalNamespace(_)
marshalNamespace(ns) ==
    JsonObject(
        "name" :> JsonString(ns.Name)
        @@ OmitEmpty("tasks", Len(ns.Tasks.items) = 0, marshalTasks(ns.Tasks))
        @@ OmitEmpty("variables", Len(ns.Variables.items) = 0,
                     marshalVariables(ns.Variables))
        @@ OmitEmpty("namespaces", Len(ns.Namespaces.items) = 0,
                     JsonSlice(ns.Namespaces,
                               [i \in 1..Len(ns.Namespaces.items) |->
                                   marshalNamespace(ns.Namespaces.items[i])])))

\* encoding/json on a QuakeFile, by its field tags
marshalQuakeFile(qf) ==
    JsonObject(
        "tasks" :> marshalTasks(qf.Tasks)
        @@ OmitEmpty("namespaces", Len(qf.Namespaces.items) = 0,
                     JsonSlice(qf.Namespaces,
                               [i \in 1..Len(qf.Namespaces.items) |->
                                   marshalNamespace(qf.Namespaces.items[i])]))
        @@ OmitEmpty("variables", Len(qf.Variables.items) = 0,
                     marshalVariables(qf.Variables))
        @@ OmitEmpty("file_namespace", qf.FileNamespace = <<>>,
                     JsonString(qf.FileNamespace)))

\* what json.Unmarshal gives: an error, or the value read
Decoded(err, v) == [err |-> err, v |-> v]

\* encoding/json reading a string or bool member: absent leaves the zero value
unmarshalString(fields, key) ==
    IF key \in DOMAIN fields THEN fields[key].s ELSE <<>>
unmarshalBool(fields, key) ==
    IF key \in DOMAIN fields THEN fields[key].b ELSE FALSE

\* the items of an array member, none if the member is absent or null
Items(fields, key) ==
    IF key \in DOMAIN fields
    THEN IF fields[key].j = "array" THEN fields[key].items ELSE <<>>
    ELSE <<>>

\* encoding/json reading a slice member whose items decode to ds: absent and
\* null leave the slice nil, an array (even an empty one) makes it not nil
unmarshalSlice(fields, key, ds) ==
    IF key \notin DOMAIN fields THEN Decoded(FALSE, NilSlice)
    ELSE IF fields[key].j = "null" THEN Decoded(FALSE, NilSlice)
    ELSE Decoded(\E i \in 1..Len(ds) : ds[i].err,
                 Slice([i \in 1..Len(ds) |-> ds[i].v]))

unmarshalText(json) == Decoded(FALSE, json.s)

\* Command.UnmarshalJSON, one raw element: json.Unmarshal into the struct of
\* the tagged type.  ExpressionElement.Expression is of the interface type
\* Expression, into which encoding/json cannot put an object
unmarshalElement(raw) ==
    LET type == raw.fields["type"].s
    IN  CASE type = "string" ->
                 Decoded(FALSE, StringElement(unmarshalString(raw.fields, "value")))
          [] type = "backtick" ->
                 Decoded(FALSE, BacktickElement(unmarshalString(raw.fields, "command")))
          [] type = "expression" ->
                 IF "expression" \in DOMAIN raw.fields
                 THEN IF raw.fields["expression"].j # "null"
                      THEN Decoded(TRUE, [type |-> "error"])
                      ELSE Decoded(FALSE, ExpressionElement([type |-> "nil"]))
                 ELSE Decoded(FALSE, ExpressionElement([type |-> "nil"]))
          [] type = "variable" ->
                 Decoded(FALSE, VariableElement(unmarshalString(raw.fields, "name")))
          [] OTHER -> Decoded(TRUE, [type |-> "error"])

\* Command.UnmarshalJSON
CommandUnmarshalJSON(json) ==
    LET elements == unmarshalSlice(json.fields, "elements",
                     [i \in 1..Len(Items(json.fields, "elements")) |->
                         unmarshalElement(Items(json.fields, "elements")[i])])
    IN  Decoded(elements.err,
                CommandStruct(Slice(elements.v.items),
                              unmarshalBool(json.fields, "silent"),
                              unmarshalBool(json.fields, "continue_on_error")))

\* encoding/json reading a member of type any: absent and null leave nil, a
\* string stays a string, true and false become a bool, an array a []any and an
\* object a map[string]any
unmarshalAny(fields, key) ==
    IF key \notin DOMAIN fields THEN [type |-> "nil"]
    ELSE CASE fields[key].j = "null" -> [type |-> "nil"]
           [] fields[key].j = "string" -> GoString(fields[key].s)
           [] fields[key].j = "bool" -> [type |-> "bool", b |-> fields[key].b]
           [] fields[key].j = "array" -> [type |-> "slice", items |-> fields[key].items]
           [] fields[key].j = "object" -> [type |-> "map", fields |-> fields[key].fields]

\* encoding/json reading a Variable: Value is of type any
unmarshalVariable(json) ==
    Decoded(FALSE,
            [Name |-> unmarshalString(json.fields, "name"),
             Value |-> unmarshalAny(json.fields, "value"),
             IsExpression |-> unmarshalBool(json.fields, "is_expression"),
             CommandSubstitution |-> unmarshalBool(json.fields, "command_substitution"),
             IsMultiline |-> unmarshalBool(json.fields, "is_multiline")])

\* encoding/json reading a Task
unmarshalTask(json) ==
    LET arguments == unmarshalSlice(json.fields, "arguments",
                     [i \in 1..Len(Items(json.fields, "arguments")) |->
                         unmarshalText(Items(json.fields, "arguments")[i])])
        dependencies == unmarshalSlice(json.fields, "dependencies",
                     [i \in 1..Len(Items(json.fields, "dependencies")) |->
                         unmarshalText(Items(json.fields, "dependencies")[i])])
        commands == unmarshalSlice(json.fields, "commands",
                     [i \in 1..Len(Items(json.fields, "commands")) |->
                         CommandUnmarshalJSON(Items(json.fields, "commands")[i])])
    IN  Decoded(commands.err,
                [Name |-> unmarshalString(json.fields, "name"),
                 Description |-> unmarshalString(json.fields, "description"),
                 Arguments |-> arguments.v,
                 Dependencies |-> dependencies.v,
                 Commands |-> commands.v])

\* encoding/json reading a Namespace
RECURSIVE unmarshalNamespace(_)
unmarshalNamespace(json) ==
    LET tasks == unmarshalSlice(json.fields, "tasks",
                     [i \in 1..Len(Items(json.fields, "tasks")) |->
                         unmarshalTask(Items(json.fields, "tasks")[i])])
        variables == unmarshalSlice(json.fields, "variables",
                     [i \in 1..Len(Items(json.fields, "variables")) |->
                         unmarshalVariable(Items(json.fields, "variables")[i])])
        namespaces == unmarshalSlice(json.fields, "namespaces",
                     [i \in 1..Len(Items(json.fields, "namespaces")) |->
                         unmarshalNamespace(Items(json.fields, "namespaces")[i])])
    IN  Decoded(tasks.err \/ variables.err \/ namespaces.err,
                NamespaceStruct(unmarshalString(json.fields, "name"),
                                tasks.v, variables.v, namespaces.v))

\* "if q.X == nil { q.X = []T{} }"
NilToEmpty(slice) == IF slice.isNil THEN Slice(<<>>) ELSE slice

\* QuakeFile.UnmarshalJSON
QuakeFileUnmarshalJSON(json) ==
    LET tasks == unmarshalSlice(json.fields, "tasks",
                     [i \in 1..Len(Items(json.fields, "tasks")) |->
                         unmarshalTask(Items(json.fields, "tasks")[i])])
        variables == unmarshalSlice(json.fields, "variables",
                     [i \in 1..Len(Items(json.fields, "variables")) |->
                         unmarshalVariable(Items(json.fields, "variables")[i])])
        namespaces == unmarshalSlice(json.fields, "namespaces",
                     [i \in 1..Len(Items(json.fields, "namespaces")) |->
                         unmarshalNamespace(Items(json.fields, "namespaces")[i])])
    IN  Decoded(tasks.err \/ variables.err \/ namespaces.err,
                QuakeFileStruct(NilToEmpty(tasks.v), NilToEmpty(namespaces.v),
                                NilToEmpty(variables.v),
                                unmarshalString(json.fields, "file_namespace")))

\* commands as parseCommands builds them:  p  |  @q $x `c`  |  -r  |
\* e {{ env.x || "d" }}
JsonCommands ==
    << CommandStruct(Slice(<<StringElement(<<"p">>)>>), FALSE, FALSE),
       CommandStruct(Slice(<<StringElement(<<"q", " ">>), VariableElement(VarX),
                             BacktickElement(<<"c">>)>>), TRUE, FALSE),
       CommandStruct(Slice(<<StringElement(<<"r">>)>>), FALSE, TRUE),
       CommandStruct(Slice(<<StringElement(<<"e", " ">>),
                             ExpressionElement(Or(AccessId(Identifier(<<"e", "n", "v">>), VarX),
                                                  StringLiteral(<<"d">>)))>>),
                     FALSE, FALSE) >>

\* tasks as the rules taskSimple, taskWithArgs and taskWithArgsAndDeps build
\* them:  task t { }  |  task t { p ; @q $x `c` }  |  task t { -r }  |
\* task t { e {{..}} }  |  task a(x) { p }  |  task a() { p }  |
\* task b(x) => t { p }
JsonTasks ==
    { TaskStruct(NameT, NilSlice, NilSlice, Slice(<<>>)),
      TaskStruct(NameT, NilSlice, NilSlice, Slice(<<JsonCommands[1], JsonCommands[2]>>)),
      TaskStruct(NameT, NilSlice, NilSlice, Slice(<<JsonCommands[3]>>)),
      TaskStruct(NameT, NilSlice, NilSlice, Slice(<<JsonCommands[4]>>)),
      TaskStruct(SegA, Slice(<<VarX>>), NilSlice, Slice(<<JsonCommands[1]>>)),
      TaskStruct(SegA, Slice(<<>>), NilSlice, Slice(<<JsonCommands[1]>>)),
      TaskStruct(SegB, Slice(<<VarX>>), Slice(<<NameT>>), Slice(<<JsonCommands[1]>>)) }

\* variable lists as the rule variable builds them
JsonVariables ==
    { <<>>,
      << PlainVariable(VarX, <<"\"", "1", "\"">>),
         SubstitutionVariable(VarM, <<Backtick, "c", Backtick>>) >>,
      << ExpressionVariable(VarY, GoString(<<"{", "{", "x", "}", "}">>)),
         [PlainVariable(VarM, <<"l", "\n">>) EXCEPT !.IsMultiline = TRUE] >> }

\* namespace lists as the rule namespace builds them: every list a non-nil
\* slice.   (none)  |  namespace a { task t {p} }  |
\* namespace a { x = "1" namespace b { task t {p} } }
JsonNamespaces ==
    LET t == TaskStruct(NameT, NilSlice, NilSlice, Slice(<<JsonCommands[1]>>))
        b == NamespaceStruct(SegB, Slice(<<t>>), Slice(<<>>), Slice(<<>>))
    IN  { <<>>,
          <<NamespaceStruct(SegA, Slice(<<t>>), Slice(<<>>), Slice(<<>>))>>,
          <<NamespaceStruct(SegA, Slice(<<>>),
                            Slice(<<PlainVariable(VarX, <<"\"", "1", "\"">>)>>),
                            Slice(<<b>>))>> }

\* the ASTs: what the rule quakeFile returns, every list a non-nil slice
JsonQuakeFiles ==
    { QuakeFileStruct(Slice(tasks), Slice(namespaces), Slice(variables), fileNamespace) :
          tasks \in SeqsUpTo(JsonTasks, MaxJsonTasks), namespaces \in JsonNamespaces,
          variables \in JsonVariables, fileNamespace \in {<<>>, SegA} }

InitJson ==
    /\ probe \in JsonQuakeFiles
    /\ result = <<>>
    /\ quakefile = QuakeFile(<<>>, <<>>, <<>>)
    /\ hostEnv = <<>>
    /\ env = <<>>
    /\ taskArgs = <<>>
    /\ stack = <<>>
    /\ ret = None
    /\ log = <<>>
    /\ calls = 0
    /\ nextId = 1

\* json.Marshal(probe), then json.Unmarshal of the text into a QuakeFile
JsonRoundTrip ==
    /\ result = <<>>
    /\ result' = <<QuakeFileUnmarshalJSON(marshalQuakeFile(probe))>>
    /\ UNCHANGED <<quakefile, hostEnv, env, taskArgs, stack, ret, log, calls, nextId, probe>>

SpecJson == InitJson /\ [][JsonRoundTrip]_vars

\* C18: writing an AST the parser can produce to JSON and reading it back
\* succeeds and gives an AST equal to the original, every empty list of which
\* is an empty container and not an absent (nil) one.
C18_JsonRoundTrip ==
    result # <<>> => (~result[1].err /\ result[1].v = probe)

-----------------------------------------------------------------------------
(* The balanced-brace scanner of a task body (Grammar.init).               *)

MaxBody == 6

DoubleQuote == "\""
SingleQuote == "'"
Backslash == "\\"

\* position after Star(Or(S(\q), S(\\), Seq(Not(S(q)), Any()))) started at i:
\* the inside of a quoted string opened by the quote character q
RECURSIVE quotedInside(_, _, _)
quotedInside(s, i, q) ==
    IF i > Len(s) THEN i
    ELSE IF i < Len(s) /\ s[i] = Backslash /\ s[i+1] = q
         THEN quotedInside(s, i+2, q)
    ELSE IF i < Len(s) /\ s[i] = Backslash /\ s[i+1] = Backslash
         THEN quotedInside(s, i+2, q)
    ELSE IF s[i] # q THEN quotedInside(s, i+1, q)
    ELSE i

\* Seq(S(q), Star(...), S(q)) at i: the position after the closing quote, or
\* 0 when the sequence does not match
quotedString(s, i, q) ==
    IF i <= Len(s) /\ s[i] = q
    THEN LET e == quotedInside(s, i+1, q)
         IN  IF e <= Len(s) THEN e + 1 ELSE 0
    ELSE 0

\* the scanner without its nested-braces alternative
RECURSIVE balancedRuleFlat(_, _)
balancedRuleFlat(s, i) ==
    IF i > Len(s) THEN i
    ELSE IF quotedString(s, i, DoubleQuote) # 0
         THEN balancedRuleFlat(s, quotedString(s, i, DoubleQuote))
    ELSE IF quotedString(s, i, SingleQuote) # 0
         THEN balancedRuleFlat(s, quotedString(s, i, SingleQuote))
    ELSE IF s[i] # "}" THEN balancedRuleFlat(s, i+1)
    ELSE i

\* balancedRule: the position after Star(Or(double-quoted string,
\* single-quoted string, Seq("{", balancedRef, "}"), Seq(Not("}"), Any())))
\* started at i.  The choice is ordered and a sequence that fails gives way to
\* the next alternative, so a quote that is never closed and a "{" whose
\* content runs to the end of the input are regular characters.
RECURSIVE balancedRule(_, _)
balancedRule(s, i) ==
    IF i > Len(s) THEN i
    ELSE IF quotedString(s, i, DoubleQuote) # 0
         THEN balancedRule(s, quotedString(s, i, DoubleQuote))
    ELSE IF quotedString(s, i, SingleQuote) # 0
         THEN balancedRule(s, quotedString(s, i, SingleQuote))
    ELSE IF s[i] = "{" /\ balancedRule(s, i+1) <= Len(s)
         THEN balancedRule(s, balancedRule(s, i+1) + 1)
    ELSE IF s[i] # "}" THEN balancedRule(s, i+1)
    ELSE i

\* g.content: the text balancedBraceContent consumed
content(s) == SubSeq(s, 1, balancedRule(s, 1) - 1)

\* Seq(..., S("{"), content, S("}"), ...) of taskSimple, applied to the text
\* that follows the opening brace: the body, whether the closing brace was
\* there, and the text after it
taskBody(s) ==
    LET e == balancedRule(s, 1)
    IN  [content |-> content(s),
         ok |-> e <= Len(s),
         rest |-> SubSeq(s, e + 1, Len(s))]

BodyChars == {"{", "}", DoubleQuote, SingleQuote, Backslash, "a"}

RECURSIVE TextsUpTo(_, _)
TextsUpTo(chars, n) ==
    IF n = 0 THEN {<<>>}
    ELSE LET shorter == TextsUpTo(chars, n-1)
         IN  shorter \cup {Append(t, c) : t \in shorter, c \in chars}

InitBody ==
    /\ quakefile = QuakeFile(<<>>, <<>>, <<>>)
    /\ hostEnv = [n \in {} |-> <<>>]
    /\ env = [n \in {} |-> <<>>]
    /\ taskArgs = <<>>
    /\ stack = <<>>
    /\ ret = <<>>
    /\ log = <<>>
    /\ calls = 0
    /\ nextId = 1
    /\ probe \in TextsUpTo(BodyChars, MaxBody)
    /\ result = <<>>

ScanBody ==
    /\ result = <<>>
    /\ result' = <<taskBody(probe)>>
    /\ UNCHANGED <<quakefile, hostEnv, env, taskArgs, stack, ret, log, calls,
                   nextId, probe>>

SpecBody == InitBody /\ [][ScanBody]_vars

\* the quoted spans of s from i on, each from its opening to its closing quote
RECURSIVE Spans(_, _)
Spans(s, i) ==
    IF i > Len(s) THEN {}
    ELSE IF s[i] \in {DoubleQuote, SingleQuote} /\ quotedString(s, i, s[i]) # 0
         THEN {[from |-> i, to |-> quotedString(s, i, s[i]) - 1]}
                 \cup Spans(s, quotedString(s, i, s[i]))
    ELSE Spans(s, i+1)

\* the positions of s that lie in a quoted span (quotes included)
SpanPositions(s) == UNION {sp.from..sp.to : sp \in Spans(s, 1)}

\* the brace depth in front of position i, counting braces outside spans only
DepthBefore(s, i) ==
    LET outside == (1..(i-1)) \ SpanPositions(s)
    IN  Cardinality({j \in outside : s[j] = "{"})
          - Cardinality({j \in outside : s[j] = "}"})

\* the closing braces outside spans that no earlier opening brace matches
Unmatched(s) ==
    {i \in (1..Len(s)) \ SpanPositions(s) :
        s[i] = "}" /\ DepthBefore(s, i) = 0}

\* the number of backslashes right in front of position k, not before from
RECURSIVE BackslashRun(_, _, _)
BackslashRun(s, k, from) ==
    IF k - 1 >= from /\ s[k-1] = Backslash
    THEN 1 + BackslashRun(s, k-1, from)
    ELSE 0

\* the quotes q after position a that an even run of backslashes precedes
Unescaped(s, a, q) ==
    {k \in (a+1)..Len(s) : s[k] = q /\ BackslashRun(s, k, a+1) % 2 = 0}

\* C19: the body ends exactly at the first closing brace outside quoted spans
\* that no earlier opening brace outside quoted spans matches (and at the end
\* of the input if there is none), so braces inside spans change nothing and
\* a nested pair of braces is passed over; a span opened by a quote ends at
\* the first later quote of the same kind that is not escaped
C19_BalancedBraces ==
    result # <<>> =>
        LET s == probe
            e == Len(result[1].content) + 1
        IN  /\ result[1].content = SubSeq(s, 1, e - 1)
            /\ result[1].ok = (Unmatched(s) # {})
            /\ Unmatched(s) # {} =>
                  /\ e \in Unmatched(s)
                  /\ \A i \in Unmatched(s) : e <= i
                  /\ result[1].rest = SubSeq(s, e + 1, Len(s))
            /\ Unmatched(s) = {} => e = Len(s) + 1
            /\ \A sp \in Spans(s, 1) :
                  /\ sp.to \in Unescaped(s, sp.from, s[sp.from])
                  /\ \A k \in Unescaped(s, sp.from, s[sp.from]) : sp.to <= k

\* a body that ends after a span which holds an escaped quote and a brace
C19_Witness ==
    /\ result # <<>>
    /\ result[1].ok
    /\ \E sp \in Spans(probe, 1) :
          /\ sp.to <= Len(result[1].content)
          /\ \E k \in (sp.from+1)..(sp.to-2) :
                probe[k] = Backslash /\ probe[k+1] = probe[sp.from]
          /\ \E k \in sp.from..sp.to : probe[k] \in {"{", "}"}

\* a body in which a nested pair of braces precedes the closing brace
C19_WitnessNested ==
    /\ result # <<>>
    /\ result[1].ok
    /\ \E k \in 1..Len(result[1].content) :
          /\ result[1].content[k] = "}"
          /\ k \notin SpanPositions(probe)

-----------------------------------------------------------------------------
(* The lines of a task body (parseCommands).                               *)

MaxContent == 5

\* strings.TrimRight(s, cutset)
RECURSIVE TrimRightCutset(_, _)
TrimRightCutset(s, cutset) ==
    IF s # <<>> /\ s[Len(s)] \in cutset
    THEN TrimRightCutset(SubSeq(s, 1, Len(s)-1), cutset)
    ELSE s

\* S(lit) at position i of s, for a literal given by its characters
Lit(s, i, lit) ==
    /\ i + Len(lit) - 1 <= Len(s)
    /\ SubSeq(s, i, i + Len(lit) - 1) = lit

\* the position after Star(Seq(Not(S(lit)), Any())) started at i
RECURSIVE UntilLit(_, _, _)
UntilLit(s, i, lit) ==
    IF i > Len(s) \/ Lit(s, i, lit) THEN i ELSE UntilLit(s, i+1, lit)

\* the position after g.variableRef's Plus of letters, digits and _ started
\* at i
RECURSIVE NameEnd(_, _)
NameEnd(s, i) ==
    IF i <= Len(s) /\ isAlphaNum(s[i]) THEN NameEnd(s, i+1) ELSE i

\* the position after g.plainText's Star started at i
RECURSIVE PlainEnd(_, _)
PlainEnd(s, i) ==
    IF \/ i > Len(s)
       \/ Lit(s, i, <<"$">>)
       \/ Lit(s, i, <<"{", "{">>)
       \/ Lit(s, i, <<Backtick>>)
       \/ Lit(s, i, <<"\n">>)
    THEN i
    ELSE PlainEnd(s, i+1)

NoMatch == [ok |-> FALSE, el |-> <<>>, next |-> 0]
Match(el, next) == [ok |-> TRUE, el |-> el, next |-> next]

\* g.expressionElement at i: {{expr}}, the expression kept as its text
expressionElement(s, i) ==
    IF Lit(s, i, <<"{", "{">>)
    THEN LET e == UntilLit(s, i+2, <<"}", "}">>)
         IN  IF Lit(s, e, <<"}", "}">>)
             THEN Match(ExpressionElement(SubSeq(s, i+2, e-1)), e+2)
             ELSE NoMatch
    ELSE NoMatch

\* g.backtickCmd at i
backtickCmd(s, i) ==
    IF Lit(s, i, <<Backtick>>)
    THEN LET e == UntilLit(s, i+1, <<Backtick>>)
         IN  IF Lit(s, e, <<Backtick>>)
             THEN Match(BacktickElement(SubSeq(s, i+1, e-1)), e+1)
             ELSE NoMatch
    ELSE NoMatch

\* g.variableRef at i
variableRef(s, i) ==
    IF Lit(s, i, <<"$">>) /\ NameEnd(s, i+1) > i+1
    THEN Match(VariableElement(SubSeq(s, i+1, NameEnd(s, i+1) - 1)), NameEnd(s, i+1))
    ELSE NoMatch

\* g.plainText at i
plainText(s, i) ==
    IF PlainEnd(s, i) > i
    THEN Match(StringElement(SubSeq(s, i, PlainEnd(s, i) - 1)), PlainEnd(s, i))
    ELSE NoMatch

\* g.commandElement at i: the first alternative that matches
commandElement(s, i) ==
    IF expressionElement(s, i).ok THEN expressionElement(s, i)
    ELSE IF backtickCmd(s, i).ok THEN backtickCmd(s, i)
    ELSE IF variableRef(s, i).ok THEN variableRef(s, i)
    ELSE plainText(s, i)

\* g.commandElements at i: Many(g.commandElement, 0, -1), the elements and the
\* position after them
RECURSIVE commandElements(_, _)
commandElements(s, i) ==
    LET r == commandElement(s, i)
    IN  IF r.ok
        THEN LET more == commandElements(s, r.next)
             IN  [elems |-> <<r.el>> \o more.elems, next |-> more.next]
        ELSE [elems |-> <<>>, next |-> i]

\* parser.Parse(grammar.commandElements, trimmedLine) and the fallback of
\* parseCommands.  The rule matches any text, possibly leaving a rest ("$ "
\* or an unclosed backquote); whole tells whether Parse then fails (giving
\* the fallback, the line as one string) or returns what matched
lineElements(trimmedLine, whole) ==
    LET r == commandElements(trimmedLine, 1)
    IN  IF r.next > Len(trimmedLine) \/ ~whole
        THEN r.elems
        ELSE <<StringElement(trimmedLine)>>

\* the body of the loop of parseCommands for a line that is not blank
lineCommand(line, whole) ==
    LET trimmedLine == TrimSpace(line)
    IN  IF HasPrefix(trimmedLine, <<"@">>)
        THEN Command(lineElements(TrimSpace(Tail(trimmedLine)), whole), TRUE, FALSE)
        ELSE IF HasPrefix(trimmedLine, <<"-">>)
        THEN Command(lineElements(TrimSpace(Tail(trimmedLine)), whole), FALSE, TRUE)
        ELSE Command(lineElements(trimmedLine, whole), FALSE, FALSE)

\* the loop of parseCommands over the lines
RECURSIVE parseCommandsFrom(_, _)
parseCommandsFrom(lines, whole) ==
    IF lines = <<>> THEN <<>>
    ELSE LET line == TrimRightCutset(Head(lines), {" ", "\t", "\r"})
         IN  IF line = <<>>
             THEN parseCommandsFrom(Tail(lines), whole)
             ELSE <<lineCommand(line, whole)>> \o parseCommandsFrom(Tail(lines), whole)

parseCommands(content0, whole) == parseCommandsFrom(Split(content0, "\n"), whole)

ContentChars == {"@", "-", " ", "\f", "\n", "a", Backtick}

InitContent ==
    /\ quakefile = QuakeFile(<<>>, <<>>, <<>>)
    /\ hostEnv = [n \in {} |-> <<>>]
    /\ env = [n \in {} |-> <<>>]
    /\ taskArgs = <<>>
    /\ stack = <<>>
    /\ ret = <<>>
    /\ log = <<>>
    /\ calls = 0
    /\ nextId = 1
    /\ probe \in TextsUpTo(ContentChars, MaxContent)
    /\ result = <<>>

ParseCommands ==
    /\ result = <<>>
    /\ \E whole \in BOOLEAN :
          result' = <<[whole |-> whole, commands |-> parseCommands(probe, whole)]>>
    /\ UNCHANGED <<quakefile, hostEnv, env, taskArgs, stack, ret, log, calls,
                   nextId, probe>>

SpecContent == InitContent /\ [][ParseCommands]_vars

\* the source text of a command element
ElementText(el) ==
    CASE el.type = "StringElement" -> el.Value
      [] el.type = "BacktickElement" -> <<Backtick>> \o el.Command \o <<Backtick>>
      [] el.type = "VariableElement" -> <<"$">> \o el.Name
      [] el.type = "ExpressionElement" -> <<"{", "{">> \o el.Expression \o <<"}", "}">>

\* the source text of a command
CommandText(cmd) == Join([i \in 1..Len(cmd.Elements) |-> ElementText(cmd.Elements[i])])

\* a line without its marker: the marker it had ("" for none) and the text
Unmarked(line) ==
    LET t == TrimSpace(line)
    IN  IF t # <<>> /\ Head(t) \in {"@", "-"}
        THEN [marker |-> Head(t), text |-> TrimSpace(Tail(t))]
        ELSE [marker |-> "", text |-> t]

\* the lines that give a command: those not empty once the marker is removed
RECURSIVE CommandLinesOf(_)
CommandLinesOf(lines) ==
    IF lines = <<>> THEN <<>>
    ELSE IF Unmarked(Head(lines)).text = <<>> THEN CommandLinesOf(Tail(lines))
    ELSE <<Unmarked(Head(lines))>> \o CommandLinesOf(Tail(lines))

\* C20: parseCommands gives one Command for each line that is not empty once
\* its marker is removed, in order, and none for the other lines (blank, or
\* only a marker); a leading @ sets Silent, a leading - sets ContinueOnError,
\* and the command's text is the line without the marker
C20_OneCommandPerLine ==
    result # <<>> =>
        LET expected == CommandLinesOf(Split(probe, "\n"))
            commands == result[1].commands
        IN  /\ Len(commands) = Len(expected)
            /\ \A k \in 1..Len(commands) :
                  k <= Len(expected) =>
                    /\ commands[k].Silent = (expected[k].marker = "@")
                    /\ commands[k].ContinueOnError = (expected[k].marker = "-")
                    /\ HasPrefix(expected[k].text, CommandText(commands[k]))
                    /\ result[1].whole => CommandText(commands[k]) = expected[k].text

-----------------------------------------------------------------------------
(* Task documentation: the comment lines in front of a task declaration.   *)
(* The grammar that attaches them is not among the sources (the one that   *)
(* is there drops every comment); this part follows the specification and  *)
(* the tests of documentation_test.go.                                     *)

MaxLines == 4

CommentLine(text) == [type |-> "Comment", text |-> text]
BlankLine == [type |-> "Blank", text |-> <<>>]
TaskLine(name) == [type |-> "Task", text |-> name]
VariableLine == [type |-> "Variable", text |-> <<"x">>]

\* a task as the parser returns it for a declaration "task name { }"
DocumentedTask(name, description) ==
    [Name |-> name, Description |-> description, Arguments |-> <<>>,
     Dependencies |-> <<>>, Commands |-> <<>>]

\* the lines of a comment block as one text
RECURSIVE JoinLines(_)
JoinLines(texts) ==
    IF texts = <<>> THEN <<>>
    ELSE IF Len(texts) = 1 THEN texts[1]
    ELSE texts[1] \o <<"\n">> \o JoinLines(Tail(texts))

\* a scan that keeps the pending comment lines across a blank line
RECURSIVE documentedTasksAcrossBlanks(_, _, _)
documentedTasksAcrossBlanks(lines, i, pending) ==
    IF i > Len(lines) THEN <<>>
    ELSE CASE lines[i].type = "Comment" ->
                  documentedTasksAcrossBlanks(lines, i+1, Append(pending, lines[i].text))
           [] lines[i].type = "Task" ->
                  <<DocumentedTask(lines[i].text, JoinLines(pending))>>
                      \o documentedTasksAcrossBlanks(lines, i+1, <<>>)
           [] lines[i].type = "Blank" ->
                  documentedTasksAcrossBlanks(lines, i+1, pending)
           [] OTHER -> documentedTasksAcrossBlanks(lines, i+1, <<>>)

\* the scan over the top-level lines from line i on: pending holds the
\* comment lines read since the last line that was not a comment
RECURSIVE documentedTasksFrom(_, _, _)
documentedTasksFrom(lines, i, pending) ==
    IF i > Len(lines) THEN <<>>
    ELSE CASE lines[i].type = "Comment" ->
                  documentedTasksFrom(lines, i+1, Append(pending, lines[i].text))
           [] lines[i].type = "Task" ->
                  <<DocumentedTask(lines[i].text, JoinLines(pending))>>
                      \o documentedTasksFrom(lines, i+1, <<>>)
           [] OTHER -> documentedTasksFrom(lines, i+1, <<>>)

documentedTasks(lines) == documentedTasksFrom(lines, 1, <<>>)

\*   # c  |  # d  |  (blank)  |  task t { }  |  task u { }  |  x = "1"
TopLevelLines ==
    {CommentLine(<<"c">>), CommentLine(<<"d">>), BlankLine,
     TaskLine(NameT), TaskLine(NameU), VariableLine}

InitDocumented ==
    /\ quakefile = QuakeFile(<<>>, <<>>, <<>>)
    /\ hostEnv = [n \in {} |-> <<>>]
    /\ env = [n \in {} |-> <<>>]
    /\ taskArgs = <<>>
    /\ stack = <<>>
    /\ ret = <<>>
    /\ log = <<>>
    /\ calls = 0
    /\ nextId = 1
    /\ probe \in SeqsUpTo(TopLevelLines, MaxLines)
    /\ result = <<>>

\* ParseQuakefile(input).Tasks
ParseDocumented ==
    /\ result = <<>>
    /\ result' = <<documentedTasks(probe)>>
    /\ UNCHANGED <<quakefile, hostEnv, env, taskArgs, stack, ret, log, calls,
                   nextId, probe>>

SpecDocumented == InitDocumented /\ [][ParseDocumented]_vars

\* the positions of the task declarations among the lines, in order
TaskPositions(lines) ==
    LET ps == {j \in 1..Len(lines) : lines[j].type = "Task"}
    IN  [n \in 1..Cardinality(ps) |->
            CHOOSE j \in ps : Cardinality({k \in ps : k < j}) = n - 1]

\* the first line of the run of comment lines that ends right before line j
\* (j itself when line j-1 is no comment)
RunStart(lines, j) ==
    CHOOSE k \in 1..j :
        /\ \A m \in k..(j-1) : lines[m].type = "Comment"
        /\ k > 1 => lines[k-1].type # "Comment"

\* C21: the parsed tasks are the task declarations in order, and each task's
\* Description is the text of the run of comment lines right before it: empty
\* when the line before it is not a comment, and never holding a comment that
\* a blank line or another declaration separates from the task
C21_Description ==
    result # <<>> =>
        LET lines == probe
            at == TaskPositions(lines)
            tasks == result[1]
        IN  /\ Len(tasks) = Len(at)
            /\ \A n \in 1..Len(at) :
                  n <= Len(tasks) =>
                    /\ tasks[n].Name = lines[at[n]].text
                    /\ tasks[n].Description =
                          JoinLines([m \in 1..(at[n] - RunStart(lines, at[n])) |->
                                        lines[RunStart(lines, at[n]) + m - 1].text])

\* a file with a comment cut off by a blank line, then a comment and the task
\* it documents
C21_Witness ==
    /\ result # <<>>
    /\ Len(probe) = 4
    /\ probe[1].type = "Comment"
    /\ probe[2].type = "Blank"
    /\ probe[3].type = "Comment"
    /\ probe[4].type = "Task"
    /\ Len(result[1]) = 1
    /\ result[1][1].Description = probe[3].text

-----------------------------------------------------------------------------
(* Silent echo lines (executeCommandWithPosition, executeNativeEcho).      *)

\*   echo   |   echo hi   |   echo "a   |   p   |   echo hi after a form feed
\*   |   echo hi after an ideographic space
EchoHeads ==
    { StringElement(Echo), StringElement(Echo \o <<" ", "h", "i", " ">>),
      StringElement(Echo \o <<" ", "\"", "a">>), StringElement(<<"p", " ">>),
      StringElement(<<"\f">> \o Echo \o <<" ", "h", "i">>),
      StringElement(<<"U+3000">> \o Echo \o <<" ", "h", "i">>) }

EchoTails ==
    { StringElement(<<"\"">>), VariableElement(VarX), BacktickElement(<<"c">>),
      ExpressionElement(Or(Identifier(VarX), StringLiteral(<<"d">>))) }

EchoProbes ==
    {Command(<<head>> \o tail, silent, FALSE) :
        head \in EchoHeads, tail \in SeqsUpTo(EchoTails, MaxElements),
        silent \in BOOLEAN}

InitEcho ==
    /\ env \in ExprEnvs
    /\ hostEnv \in ExprHosts
    /\ probe \in EchoProbes
    /\ result = <<>>
    /\ quakefile = QuakeFile(<<>>, <<>>, <<>>)
    /\ taskArgs = <<>>
    /\ stack = <<>>
    /\ ret = None
    /\ log = <<>>
    /\ calls = 0
    /\ nextId = 1

ExecuteEcho ==
    /\ result = <<>>
    /\ result' = <<executeCommandWithPosition(env, hostEnv, probe)>>
    /\ UNCHANGED <<quakefile, hostEnv, env, taskArgs, stack, ret, log, calls, nextId, probe>>

SpecEcho == InitEcho /\ [][ExecuteEcho]_vars

HasBacktick(cmd) == \E i \in 1..Len(cmd.Elements) : cmd.Elements[i].type = "BacktickElement"

\* C22: a silent echo line that holds a backquote span is not printed by the
\* evaluator itself: the whole line is handed to the shell
C22_BacktickEchoViaShell ==
    (result # <<>> /\ probe.Silent /\ isEchoCommand(probe) /\ HasBacktick(probe)) =>
        /\ result[1].printed = <<>>
        /\ result[1].shell = <<commandToString(env, hostEnv, probe)>>

-----------------------------------------------------------------------------
(* Dependency cycles.                                                      *)

\* the names the task called name lists as dependencies
DepNames(name) ==
    IF Resolves(name)
    THEN {TaskNamed(name).Dependencies[i] : i \in 1..Len(TaskNamed(name).Dependencies)}
    ELSE {}

\* the names in S and every name reachable from them along dependencies
RECURSIVE Closure(_)
Closure(S) ==
    LET T == S \cup UNION {DepNames(n) : n \in S}
    IN  IF T = S THEN S ELSE Closure(T)

\* the names reachable from name along one dependency or more
After(name) == Closure(DepNames(name))

OnCycle(name) == Resolves(name) /\ name \in After(name)
AllResolve(name) == Resolves(name) /\ \A n \in After(name) : Resolves(n)

\* the tasks on a cycle through name
CycleOf(name) == {n \in After(name) : Resolves(n) /\ name \in After(n)}

\* the task the current call was made for lies on a cycle, and every name
\* reachable from it resolves
CyclicCall ==
    /\ log # <<>>
    /\ OnCycle(log[1].name)
    /\ AllResolve(log[1].name)

\* C23 as stated: a call for a task on a dependency cycle, every name
\* resolving, never returns (it re-enters the cycle without bound) and never
\* executes the own commands of a task on the cycle
C23_CycleNeverReturns ==
    CyclicCall =>
        /\ stack # <<>>
        /\ \A p \in 1..Len(log) :
               log[p].ev \in OwnEvents => log[p].name \notin CycleOf(log[1].name)

\* C23, amended: such a call never executes the own commands of a task on the
\* cycle and never returns without error; it returns only when a command or a
\* Go dispatcher of a task that is not on the cycle has failed, and then with
\* that failure, wrapped as a dependency error; as long as nothing has failed
\* it has not returned
C23_CycleUntilFailure ==
    CyclicCall =>
        /\ \A p \in 1..Len(log) :
               log[p].ev \in OwnEvents => log[p].name \notin CycleOf(log[1].name)
        /\ stack = <<>> =>
               /\ ret.k = "err"
               /\ ret.kind \in {"CommandFailed", "GoTaskFailed"}
               /\ ret.task \notin CycleOf(log[1].name)
               /\ ret.wraps # <<>>
               /\ \E p \in 1..Len(log) :
                      /\ log[p].ev \in OwnEvents /\ ~log[p].ok
                      /\ log[p].name = ret.task
        /\ (\A p \in 1..Len(log) : log[p].ev \in OwnEvents => log[p].ok) => stack # <<>>

\* a call for a task on a cycle that has entered that task a second time
C23_Witness ==
    /\ CyclicCall
    /\ Cardinality(EnteredAs(log[1].name)) >= 2
    /\ stack # <<>>

-----------------------------------------------------------------------------
(* Go tasks (executeGoTask).                                               *)

\* a Go task as discoverGoTasks builds it, here also with dependencies and
\* with commands, which the evaluator is not to look at
GoTaskWith(name, params, dispatcher, dir, dependencies, commands) ==
    [GoTask(name, params, dispatcher, dir) EXCEPT
        !.Dependencies = dependencies, !.Commands = commands]

\*   the Go task g(x) [=> default], with or without dispatcher and source
\*   directory
\*   task a(x) => g { p $x }
\*   task default { -p $y }
GoQuakefiles ==
    { QuakeFile(
          << GoTaskWith(TaskG, <<ArgX>>, dispatcher, dir, deps, commands),
             Task(TaskA, <<ArgX>>, <<TaskG>>, <<Sh("p", ArgX, FALSE)>>),
             Task(Default, <<>>, <<>>, <<Sh("p", ArgY, continue)>>) >>,
          <<>>, <<>>)
      : dispatcher \in {<<>>, <<"d">>}, dir \in {<<>>, <<"q">>},
        deps \in {<<>>, <<Default>>},
        commands \in {<<>>, <<Sh("q", ArgX, FALSE)>>},
        continue \in BOOLEAN }

InitGo ==
    /\ quakefile \in GoQuakefiles
    /\ hostEnv \in HostEnvs
    /\ env = New(quakefile, hostEnv, <<>>)
    /\ taskArgs = <<>>
    /\ stack = <<>>
    /\ ret = None
    /\ log = <<>>
    /\ calls = 0
    /\ nextId = 1
    /\ probe = <<>>
    /\ result = <<>>

\* a caller calls RunTaskWithArgs for the Go task or for the task that
\* depends on it
CallGo ==
    /\ stack = <<>>
    /\ calls < MaxCalls
    /\ calls' = calls + 1
    /\ \E name \in {TaskG, TaskA}, args \in CallArgs : Enter(name, args, 0, 1, <<>>)
    /\ UNCHANGED <<quakefile, hostEnv, probe, result>>

NextGo == CallGo \/ RunDep \/ DepReturned \/ ExecCommand \/ ExecGoTask \/ TaskDone

SpecGo == InitGo /\ [][NextGo]_vars

\* the positions at which the activation that returns at position r ran
\* something of its own
OwnSteps(r) ==
    {p \in 1..r : log[p].id = log[r].id /\ log[p].ev \in OwnEvents}

\* the returns, before position r, of the dependencies called by the
\* activation that returns at position r
DepReturns(r) ==
    {p \in 1..r : log[p].ev = "return" /\ log[p].parent = log[r].id}

\* C24: an activation of a Go task interprets no command.  With an empty
\* dispatcher path or source directory, or after a failed dependency, it
\* returns an error and starts nothing; otherwise it starts the dispatcher
\* exactly once, after all its dependencies have returned, with the task name
\* followed by the arguments of this invocation, which are none when the task
\* runs as a dependency
C24_GoTaskDelegates ==
    \A r \in 1..Len(log) :
        (log[r].ev = "return" /\ Resolves(log[r].name)
            /\ TaskNamed(log[r].name).IsGoTask) =>
            LET task == TaskNamed(log[r].name)
                own == OwnSteps(r)
                depsOk == \A p \in DepReturns(r) : log[p].ok
            IN  /\ \A p \in own : log[p].ev = "go"
                /\ IF task.GoDispatcher = <<>> \/ task.GoSourceDir = <<>> \/ ~depsOk
                   THEN own = {} /\ ~log[r].ok
                   ELSE /\ Cardinality(own) = 1
                        /\ Cardinality(DepReturns(r)) = Len(task.Dependencies)
                        /\ \A p \in own :
                               /\ \A d \in DepReturns(r) : d < p
                               /\ log[p].text = <<task.Name>> \o log[EnteredAt(r)].args
                               /\ log[r].parent # 0 => log[p].text = <<task.Name>>
                               /\ log[r].ok = log[p].ok

\* the Go task ran as a dependency, after its own dependency, with commands
\* it did not interpret, and the caller had arguments
C24_Witness ==
    \E r \in 1..Len(log) :
        /\ log[r].ev = "return" /\ log[r].name = TaskG /\ log[r].ok
        /\ log[r].parent # 0
        /\ log[1].args # <<>>
        /\ TaskNamed(TaskG).Commands # <<>>
        /\ DepReturns(r) # {}

-----------------------------------------------------------------------------
(* The dispatcher cache (package gotasks: TaskCache).                      *)

MaxCacheCalls == 3

\* the values CalculateSourceHash gives for the source files of a directory
Hashes == {"h1", "h2"}

\* how far GenerateDispatcher gets: os.CreateTemp fails, generateMainContent
\* fails, format.Source fails, os.WriteFile fails, or all succeed
GenerateOutcomes == {"createTemp", "content", "format", "write", "ok"}

\* GenerateDispatcher(tasks, qtasksDir) for a non-empty task list, file being
\* the name os.CreateTemp picks: the files on disk afterwards, the path
\* returned and whether an error is returned
GenerateDispatcher(disk, file, outcome) ==
    CASE outcome = "createTemp" -> [disk |-> disk, path |-> <<>>, err |-> TRUE]
      [] outcome = "content" -> [disk |-> disk \ {file}, path |-> <<>>, err |-> TRUE]
      [] outcome = "format" -> [disk |-> disk \cup {file}, path |-> <<>>, err |-> TRUE]
      [] outcome = "write" -> [disk |-> disk \ {file}, path |-> <<>>, err |-> TRUE]
      [] outcome = "ok" -> [disk |-> disk \cup {file}, path |-> <<file>>, err |-> FALSE]

\* NewTaskCache() and the files of the project directory: the cache's map, the
\* files on disk (by the number os.CreateTemp put in their name), the files
\* created through the cache so far, what was called last, and whether an
\* os.Remove of Cleanup has failed
InitCache ==
    /\ probe = [tempFiles |-> <<>>, disk |-> {}, created |-> {},
                gets |-> 0, cleanups |-> 0, last |-> "new", removeFailed |-> FALSE]
    /\ result = <<>>
    /\ quakefile = QuakeFile(<<>>, <<>>, <<>>)
    /\ hostEnv = <<>>
    /\ env = <<>>
    /\ taskArgs = <<>>
    /\ stack = <<>>
    /\ ret = None
    /\ log = <<>>
    /\ calls = 0
    /\ nextId = 1

\* TaskCache.GetDispatcherPath(tasks, qtasksDir)
GetDispatcherPath ==
    /\ probe.gets < MaxCacheCalls
    /\ \E noTasks \in BOOLEAN, hashFails \in BOOLEAN, hash \in Hashes,
          outcome \in GenerateOutcomes :
          LET file == probe.gets + 1
              called == [probe EXCEPT !.gets = @ + 1, !.last = "get"]
          IN  IF noTasks \/ hashFails
              THEN /\ probe' = called
                   /\ result' = <<[path |-> <<>>, err |-> TRUE]>>
              ELSE IF hash \in DOMAIN probe.tempFiles
                         /\ probe.tempFiles[hash] \in probe.disk
              THEN /\ probe' = called
                   /\ result' = <<[path |-> <<probe.tempFiles[hash]>>, err |-> FALSE]>>
              ELSE LET g == GenerateDispatcher(probe.disk, file, outcome)
                   IN  /\ probe' = [called EXCEPT
                                      !.disk = g.disk,
                                      !.created = IF outcome = "createTemp" THEN @
                                                  ELSE @ \cup {file},
                                      !.tempFiles = IF g.err THEN @
                                                    ELSE SetEnv(@, hash, file)]
                       /\ result' = <<[path |-> g.path, err |-> g.err]>>
    /\ UNCHANGED <<quakefile, hostEnv, env, taskArgs, stack, ret, log, calls, nextId>>

\* TaskCache.Cleanup(): os.Remove on every file of the map; a removal that
\* fails (other than because the file does not exist) only prints a warning
\* and leaves the file; the map is emptied and nil returned in every case
Cleanup ==
    /\ probe.cleanups < 2
    /\ \E kept \in SUBSET ({probe.tempFiles[h] : h \in DOMAIN probe.tempFiles}
                            \cap probe.disk) :
       probe' = [probe EXCEPT
                    !.disk = @ \ ({probe.tempFiles[h] : h \in DOMAIN probe.tempFiles}
                                  \ kept),
                    !.removeFailed = @ \/ kept # {},
                    !.tempFiles = <<>>,
                    !.cleanups = @ + 1,
                    !.last = IF probe.last \in {"cleanup", "cleanup again"}
                             THEN "cleanup again" ELSE "cleanup"]
    /\ result' = <<[path |-> <<>>, err |-> FALSE]>>
    /\ UNCHANGED <<quakefile, hostEnv, env, taskArgs, stack, ret, log, calls, nextId>>

\* something else removes a dispatcher file from the directory
RemoveOutside ==
    /\ probe.last = "get"
    /\ \E file \in probe.disk :
           probe' = [probe EXCEPT !.disk = @ \ {file}, !.last = "removed"]
    /\ UNCHANGED <<result, quakefile, hostEnv, env, taskArgs, stack, ret, log, calls,
                   nextId>>

NextCache == GetDispatcherPath \/ Cleanup \/ RemoveOutside

SpecCache == InitCache /\ [][NextCache]_vars

\* C25: right after Cleanup no file created through the cache is on disk and
\* the cache holds no entry, whatever GetDispatcherPath calls came before,
\* and this is also so after a second Cleanup (as long as the file system
\* lets Cleanup remove the files it tries to remove)
C25_CleanupRemovesAll ==
    (probe.last \in {"cleanup", "cleanup again"} /\ ~probe.removeFailed) =>
        /\ probe.created \cap probe.disk = {}
        /\ DOMAIN probe.tempFiles = {}

-----------------------------------------------------------------------------
(* Argument bindings while a task's own commands run.                      *)

\* C26: whenever a task runs a command of its own (or its Go dispatcher), each
\* argument it declares is bound in the environment to the value passed to
\* this invocation, or to the empty string if none was passed for it, also
\* when dependencies ran before
C26_OwnArgsBound ==
    \A p \in 1..Len(log) :
        log[p].ev \in OwnEvents =>
            LET arguments == TaskNamed(log[p].name).Arguments
            IN  \A i \in 1..Len(arguments) :
                    /\ arguments[i] \in DOMAIN log[p].env
                    /\ log[p].env[arguments[i]] =
                           IF i <= Len(log[p].args) THEN log[p].args[i] ELSE <<>>

-----------------------------------------------------------------------------
(* Termination.                                                            *)

\* a step of the evaluator inside a call of RunTaskWithArgs
EvaluatorStep == RunDep \/ DepReturned \/ ExecCommand \/ ExecGoTask \/ TaskDone

\* the evaluator is sequential and nothing else runs: a call in progress takes
\* its next step.  A step that starts a child process may leave the call
\* blocked for ever (ret = Blocked), after which no step is possible
SpecLive == Init /\ [][Next]_vars /\ WF_vars(EvaluatorStep)

\* no task reachable from name, name included, lies on a dependency cycle
Acyclic(name) == \A n \in {name} \cup After(name) : n \notin After(n)

\* a call is in progress for a task from which every reachable name resolves
\* and no cycle can be reached
TerminatingCall ==
    /\ stack # <<>>
    /\ AllResolve(log[1].name)
    /\ Acyclic(log[1].name)

\* every shell command and Go dispatcher the evaluator waits for exits
CommandsTerminate == ret # Blocked

\* C27: if every shell command terminates, a call for a task from which every
\* reachable dependency name resolves and no dependency cycle can be reached
\* eventually returns
C27_EventuallyReturns == ([]CommandsTerminate) => (TerminatingCall ~> (stack = <<>>))

\* such a call has returned after running two levels of dependencies
C27_Witness ==
    /\ stack = <<>>
    /\ calls > 0
    /\ AllResolve(log[1].name)
    /\ Acyclic(log[1].name)
    /\ \E q \in 1..Len(log) :
           /\ log[q].ev = "enter" /\ log[q].parent # 0 /\ log[q].parent # log[1].id
    /\ ret.k = "ok"

-----------------------------------------------------------------------------
(* The current invocation's arguments (Evaluator.taskArgs).                *)

\* C28: taskArgs follows stack discipline.  When a call returns, with or
\* without error, taskArgs is what it was when the call was entered; whenever
\* a task runs a command of its own or its Go dispatcher, taskArgs is the list
\* passed to that invocation; between calls it is the initial, empty list
C28_TaskArgsStack ==
    /\ \A r \in 1..Len(log) :
           log[r].ev = "return" => log[r].taskArgs = log[EnteredAt(r)].taskArgs
    /\ \A p \in 1..Len(log) :
           log[p].ev \in OwnEvents => log[p].taskArgs = log[p].args
    /\ (log # <<>> /\ log[Len(log)].ev = "return") => taskArgs = log[Len(log)].taskArgs
    /\ (Running /\ DepsDone(Top)) => taskArgs = Top.args
    /\ stack = <<>> => taskArgs = <<>>

\* a call with arguments has returned an error after a dependency of a
\* dependency failed, and another returned because a name did not resolve
C28_Witness ==
    /\ stack = <<>>
    /\ calls > 0
    /\ log[1].args # <<>>
    /\ ret.k = "err"
    /\ Len(ret.wraps) >= 2
    /\ \E p \in 1..Len(log) : log[p].ev \in OwnEvents /\ ~log[p].ok /\ log[p].parent # 0

-----------------------------------------------------------------------------
(* One command line split into elements (parser.Parse of                   *)
(* grammar.commandElements in parseCommands).  The rule is a Many of zero  *)
(* or more elements and stops before a $ that no name follows, an unclosed *)
(* backquote or an unclosed {{; whether Parse then reports failure (and    *)
(* parseCommands falls back to the line as one StringElement) or returns   *)
(* the elements matched so far is decided inside the peggysue library.     *)

MaxLine == 4

LineChars == {"$", "{", "}", "a", Backtick}

InitLine ==
    /\ quakefile = QuakeFile(<<>>, <<>>, <<>>)
    /\ hostEnv = [n \in {} |-> <<>>]
    /\ env = [n \in {} |-> <<>>]
    /\ taskArgs = <<>>
    /\ stack = <<>>
    /\ ret = <<>>
    /\ log = <<>>
    /\ calls = 0
    /\ nextId = 1
    /\ probe \in TextsUpTo(LineChars, MaxLine)
    /\ result = <<>>

\* the loop body of parseCommands for one line free of markers and blanks
ParseLine ==
    /\ result = <<>>
    /\ \E whole \in BOOLEAN :
          result' = <<[whole |-> whole, command |-> lineCommand(probe, whole)]>>
    /\ UNCHANGED <<quakefile, hostEnv, env, taskArgs, stack, ret, log, calls,
                   nextId, probe>>

SpecLine == InitLine /\ [][ParseLine]_vars

-----------------------------------------------------------------------------
(* realMain for every short argument list.                                 *)

MaxArgv == 4

\* the words of an argument list: the separator, two task names, another word
Argv == {DashDash, TaskA, TaskG, <<"v">>}

InitArgs ==
    /\ quakefile = QuakeFile(<<>>, <<>>, <<>>)
    /\ hostEnv \in HostEnvs
    /\ \E args \in TextsUpTo(Argv, MaxArgv) :
          probe = MainState(args, <<>>, 0, "split", <<>>)
    /\ result = <<>>
    /\ env = <<>>
    /\ taskArgs = <<>>
    /\ stack = <<>>
    /\ ret = None
    /\ log = <<>>
    /\ calls = 0
    /\ nextId = 1

SpecArgs == InitArgs /\ [][NextMain]_vars

\* the arguments that are not the separator, in order
WithoutSeparators(args) == SelectSeq(args, LAMBDA a : a # DashDash)

\* C30: for every argument list, every task group realMain builds by
\* splitting at -- is non-empty and the groups concatenated in order are the
\* arguments with every -- removed; an argument list without any argument
\* other than -- makes one call of runTask, for the default task without
\* arguments, which enters the default task exactly once once the Quakefile
\* is loaded
C30_GroupsPartitionArgs ==
    /\ probe.pc # "split" =>
           /\ \A g \in 1..Len(probe.taskGroups) : probe.taskGroups[g] # <<>>
           /\ Join(probe.taskGroups) = WithoutSeparators(probe.args)
    /\ WithoutSeparators(probe.args) = <<>> =>
           /\ Len(probe.runs) <= 1
           /\ \A k \in 1..Len(probe.runs) :
                  /\ probe.runs[k].taskName = <<>>
                  /\ probe.runs[k].taskArgs = <<>>
                  /\ probe.runs[k].loaded = (log # <<>>)
                  /\ \A q \in 1..Len(log) :
                         (log[q].ev = "enter" /\ log[q].parent = 0) =>
                             (q = 1 /\ log[q].name = Default /\ log[q].args = <<>>)
           /\ probe.pc = "exit" => Len(probe.runs) = 1

\* realMain has exited after an argument list of separators only, having run
\* the default task's commands
C30_Witness ==
    /\ probe.pc = "exit"
    /\ Len(probe.args) >= 2
    /\ WithoutSeparators(probe.args) = <<>>
    /\ Len(probe.runs) = 1
    /\ probe.runs[1].returned
    /\ \E q \in 1..Len(log) : log[q].ev \in OwnEvents /\ log[q].name = Default

====
